---- MODULE Spec2Model ----
(***************************************************************************)
(* Search-and-sync pipeline of the cookbook backend: the relational store  *)
(* (system of record), the 'recipes' and 'ingredients' indices of the      *)
(* search engine, RecipesService (create / update / delete),               *)
(* ElasticsearchSyncService (syncRecipe / deleteRecipe / syncIngredients / *)
(* bulkSyncRecipes) and SearchService (searchRecipes / cookWithWhatIHave / *)
(* autocompleteIngredients).  Every await of a handler is a step.          *)
(***************************************************************************)
EXTENDS FiniteSets, Integers, Sequences, TLC

\* ---------------------------------------------------------------- bounds
\* Distinct contents (title, description, ...) a recipe row can carry.
MaxVer == 2
\* Largest page the engine returns in the model (size / limit of a query).
MaxHits == 2
\* Longest list of ingredient names in a request.
MaxNames == 2
\* ai.maxRequestsPerHour and ai.maxRequestsPerDay as configured in the model
\* (the defaults are 50 and 200), and the requests one user makes beyond them.
MaxRequestsPerHour == 2
MaxRequestsPerDay == 2
MaxExtraRequests == 1
\* ai.maxTokensPerDay as configured in the model (the default is 100000).
MaxTokensPerDay == 2
\* The hours the clock of the model passes into after the first one.
MaxHour == 1

\* ------------------------------------------------------------ the domain
\* Primary keys the database hands out (uuid, never reused).
RecipeIds == {"a", "b"}
\* The order in which the database returns rows when no orderBy is given.
IdOrder == <<"a", "b">>

Range(q) == {q[i] : i \in DOMAIN q}

\* Ingredient names of the recipes (CreateRecipeInput.ingredients and
\* UpdateRecipeInput.ingredients), as the content of a row gives them: the
\* contents of recipe "a" carry in turn the rows "Egg" and "egg" (two names
\* that differ in letter case only) and the rows "egg" and "flour" (two
\* distinct names), so an update of "a" to its next content replaces its
\* ingredient rows; every content of "b" carries the row "egg", its updates
\* give no ingredients.
IngredientNames == {"Egg", "egg", "flour"}
IngredientsOf(r, ver) ==
  IF r = "b" THEN <<"egg">>
  ELSE IF ver % 2 = 1 THEN <<"Egg", "egg">> ELSE <<"egg", "flour">>
\* String.prototype.toLowerCase on the names of the model.
ToLowerCase(n) == IF n = "Egg" THEN "egg" ELSE n
\* name.replace(/\s+/g, '_') on the names of the model (no white space).
ReplaceSpaces(n) == n
FacetIds == {ToLowerCase(ReplaceSpaces(ToLowerCase(n))) : n \in IngredientNames}

VARIABLES
  db,       \* recipe table: id -> row (st = none | live | gone)
  mut,      \* the RecipesService update / delete calls between their awaits
  index,    \* 'recipes' index: id -> document
  facets,   \* 'ingredients' index: facet id -> document
  sync,     \* the in-flight syncRecipe / deleteRecipe call
  bulk,     \* the in-flight bulkSyncRecipes call
  unsynced, \* ids mutated and not yet followed by a successful incremental sync
  search,   \* the in-flight SearchService call
  dbUp,     \* the database answers queries
  bulkHist, \* how the engine took the writes of the current and the previous bulk run
  built,    \* a query built by SearchService, and the engine's answer to it
  fallback, \* a call of FallbackSearchService.searchRecipes beside the primary path
  es,       \* the engine's indices and the last startup call of ElasticsearchService
  limiter,  \* the Redis counters of one user and the requests in AIRateLimitGuard
  race,     \* one recipe, its document and the syncRecipe calls racing for it
  pubsub,   \* PubSubService: the subscriptions map and the Redis subscriber
  categorized \* an ingredient name and the category categorizeIngredient gave it

\* The variables of the query builder and of the fallback service.
pureVars == <<built, fallback>>
\* The variables of the two stores and of the calls that work on them.
storeVars == <<db, mut, index, facets, sync, bulk, unsynced, search, dbUp, bulkHist>>
\* The variables of the services beside the stores.
serviceVars == <<es, limiter, race, pubsub, categorized>>
vars == <<storeVars, pureVars, serviceVars>>

\* ----------------------------------------------------------- the records
\* createdAt: the place of the row among the rows in the order of their
\* creation (createdAt DateTime @default(now())), 0 where there is no row.
NoRow == [st |-> "none", isPublic |-> FALSE, ver |-> 0, createdAt |-> 0]
GoneRow == [st |-> "gone", isPublic |-> FALSE, ver |-> 0, createdAt |-> 0]
LiveRows == [st : {"live"}, isPublic : BOOLEAN, ver : 1..MaxVer,
             createdAt : 1..Cardinality(RecipeIds)]
Rows == {NoRow, GoneRow} \cup LiveRows

NoDoc == [present |-> FALSE, isPublic |-> FALSE, ver |-> 0, createdAt |-> 0]
NoFacet == [present |-> FALSE, usageCount |-> 0]

IsLive(d, r) == d[r].st = "live"
IsPublicRow(d, r) == d[r].st = "live" /\ d[r].isPublic
HasDoc(idx, r) == idx[r].present

\* The document both syncRecipe and bulkSyncRecipes build from a row.
Project(row) == [present |-> TRUE, isPublic |-> row.isPublic, ver |-> row.ver,
                 createdAt |-> row.createdAt]

\* The creation times of rows d and documents idx are those some order of
\* creation gives: the ids that were ever created have distinct places, the
\* place of a row that lives is its createdAt, and a document holds the
\* createdAt of the row it was built from.
WellTimed(d, idx) ==
  LET created == {r \in RecipeIds : d[r].st # "none"}
  IN \E t \in [created -> 1..Cardinality(created)] :
       /\ \A r1, r2 \in created : r1 # r2 => t[r1] # t[r2]
       /\ \A r \in created : IsLive(d, r) => d[r].createdAt = t[r]
       /\ \A r \in created : HasDoc(idx, r) => idx[r].createdAt = t[r]

\* The RecipesService calls that can be between their awaits at one time.
Mutators == {"m1", "m2"}
\* A call of update or delete: its id and input once findById has answered.
IdleMutation == [pc |-> "idle", op |-> "none", id |-> "a"]

\* snap: the row read; names: the distinct lower-cased names syncIngredients
\* still has to write, the first being the one in hand; count: its usageCount
\* once counted; documents: the facet documents written so far by the call.
IdleSync == [pc |-> "idle", op |-> "none", id |-> "a", snap |-> NoRow,
             names |-> <<>>, count |-> 0, documents |-> <<>>,
             engine |-> "none", outcome |-> "none"]
IdleBulk == [pc |-> "idle", snap |-> [r \in RecipeIds |-> NoRow],
             names |-> <<>>, count |-> 0,
             engine |-> "none", logged |-> {}, outcome |-> "none"]
\* cur: the run in flight or last completed (clean while every write so far was
\* accepted, accepted once it completed so); prev: the run before it was accepted.
NoBulkHist == [cur |-> "none", prev |-> FALSE]

\* An optional field of an input or of a query: undefined, or one value.
None == <<>>
Some(x) == <<x>>
IsSome(o) == Len(o) = 1
Val(o) == o[1]
\* JavaScript truthiness of an optional string, number and list.
TruthyString(o) == IsSome(o) /\ Val(o) # ""
TruthyNumber(o) == IsSome(o) /\ Val(o) # 0
NonEmptyList(o) == IsSome(o) /\ Len(Val(o)) > 0

\* SearchQueryInput with every field left out.
EmptyRequest ==
  [query |-> None, ingredients |-> None, cuisines |-> None, difficulties |-> None,
   maxCookingTime |-> None, minServings |-> None, maxServings |-> None,
   authorId |-> None, skip |-> None, take |-> None]
NoQuery == [must |-> <<>>, should |-> None, filter |-> None,
            minimum_should_match |-> None, sort |-> <<>>]
IdleBuilt == [pc |-> "idle", op |-> "none", req |-> EmptyRequest, names |-> <<>>,
              query |-> NoQuery, from |-> 0, size |-> 0, docs |-> <<>>, hits |-> <<>>]
\* The two indices of the engine.  An index is absent, or exists with the
\* mappings and settings of createIndex ("ours"), or with others ("foreign").
IndexNames == <<"recipes", "ingredients">>
IndexKinds == {"absent", "ours", "foreign"}
IdleEs == [indices |-> [n \in {IndexNames[i] : i \in DOMAIN IndexNames} |-> "ours"],
           pc |-> "idle", call |-> "none", i |-> 1,
           threw |-> FALSE, logged |-> FALSE, created |-> {}, ensured |-> FALSE]
\* The contents a recipe can have in the race of its syncs: a visibility, a
\* title (a column of the recipe row) and ingredient rows.
RecipeStates == [isPublic : BOOLEAN, title : {"t1", "t2"}, ings : {"i1", "i2"}]
\* The syncRecipe calls in flight for the recipe.
SyncCalls == {"s1", "s2"}
NoRaceDoc == [present |-> FALSE, title |-> "t1", ings |-> "i1"]
\* The document syncRecipe builds from the recipe it read.
RaceDocument(recipe) == [present |-> TRUE, title |-> recipe.title, ings |-> recipe.ings]
IdleSyncCall == [pc |-> "idle", recipe |-> [isPublic |-> FALSE, title |-> "t1", ings |-> "i1"]]
\* row: the committed state; committed: the documents of the public states
\* committed so far; doc: the document in the index; calls: the calls.
IdleRace == [row |-> [isPublic |-> TRUE, title |-> "t1", ings |-> "i1"],
             committed |-> {[present |-> TRUE, title |-> "t1", ings |-> "i1"]},
             doc |-> NoRaceDoc,
             calls |-> [c \in SyncCalls |-> IdleSyncCall]]

\* No name has been categorized.  A name is a sequence of characters.
NotCategorized == [pc |-> "idle", name |-> <<>>, category |-> "none"]

\* The channels and the callbacks of PubSubService.
Channels == {"recipe:a", "activity:global"}
Callbacks == {"f", "g"}
\* subscriptions.get(channel): undefined, or a Set of callbacks.
NoCallbacks == [present |-> FALSE, callbacks |-> {}]
\* The subscribe and unsubscribe calls that can wait for Redis at one time.
PubSubCalls == {"p1", "p2"}
\* A call that is not waiting for Redis.
IdlePubSubCall == [pc |-> "idle", channel |-> "none", callback |-> "none"]
\* subscriptions: the Map; redis: the channels the subscriber connection is
\* subscribed to; delivered: the channel of the last message, the callbacks
\* registered for it then and the callbacks it reached; calls: the calls
\* waiting at their await of subscriber.subscribe / subscriber.unsubscribe.
IdlePubSub == [subscriptions |-> [c \in Channels |-> NoCallbacks], redis |-> {},
               delivered |-> [channel |-> "none", registered |-> {}, to |-> {}],
               calls |-> [p \in PubSubCalls |-> IdlePubSubCall]]

\* Requests of one user that pass through the guard at the same time.
Requests == {"q1", "q2"}
\* The keys canActivate increments.
CounterKeys == {"hour", "day"}
\* The hours of the clock within one day: now.getHours() names the hourKey.
Hours == 0..MaxHour
\* now: the hour of the clock; hour[h], day and tokens: the values in Redis
\* under the hourKey of hour h, under dayKey and under tokensKey (0: no
\* value); admittedHour[h] and admittedDay: the requests the guard has
\* admitted among those that entered in hour h and in the day; req: the
\* locals of each request in canActivate (hourKey: the hour of the key it
\* built on entering), and the keys whose incrementCounter has not ended.
IdleRequest == [pc |-> "idle", hourKey |-> 0, hourlyRequests |-> 0,
                dailyRequests |-> 0, dailyTokens |-> 0, currentHour |-> 0,
                currentDay |-> 0, pending |-> {}, result |-> "none"]
IdleLimiter == [now |-> 0, hour |-> [h \in Hours |-> 0], day |-> 0, tokens |-> 0,
                admittedHour |-> [h \in Hours |-> 0], admittedDay |-> 0,
                req |-> [q \in Requests |-> IdleRequest]]
IdleFallback == [pc |-> "idle", req |-> EmptyRequest, skip |-> 0, take |-> 0,
                 total |-> 0, recipes |-> <<>>, from |-> 0, size |-> 0,
                 hits |-> <<>>, primary |-> <<>>, names |-> <<>>]
NoTotal == [kind |-> "number", value |-> 0]
IdleSearch == [pc |-> "idle", op |-> "none", hits |-> <<>>, hitsTotal |-> NoTotal,
               recipes |-> <<>>, suggestions |-> <<>>, total |-> 0,
               outcome |-> "none"]

\* ------------------------------------------------------ RecipesRepository
\* create: the new row is the latest of the rows created so far.
RepoCreate(d, r, pub, v) ==
  [d EXCEPT ![r] = [st |-> "live", isPublic |-> pub, ver |-> v,
                    createdAt |-> 1 + Cardinality({x \in RecipeIds : d[x].st # "none"})]]

\* update: one transaction sets the columns of the row and, the input giving
\* ingredients, replaces its ingredient rows; prisma.recipe.update throws when
\* no row has the id and nothing is written.
RepoUpdate(d, r, pub, v) ==
  IF IsLive(d, r) THEN [d EXCEPT ![r] = [@ EXCEPT !.isPublic = pub, !.ver = v]]
  ELSE d

\* delete: prisma.recipe.delete throws when no row has the id.
RepoDelete(d, r) == IF IsLive(d, r) THEN [d EXCEPT ![r] = GoneRow] ELSE d

\* --------------------------------------------------------- RecipesService
\* create: repository.create, then return (the sync call is a TODO comment).
Create(r, pub, v) ==
  /\ dbUp
  /\ db[r].st = "none"
  /\ db' = RepoCreate(db, r, pub, v)
  /\ unsynced' = unsynced \cup {r}
  /\ UNCHANGED <<mut, index, facets, sync, bulk, search, dbUp, bulkHist, pureVars, serviceVars>>

\* update, first await: findById has found the row (NotFoundException
\* otherwise) and the ownership check has passed.
UpdateFindById(m, r) ==
  /\ mut[m].pc = "idle"
  /\ dbUp
  /\ db[r].st = "live"
  /\ mut' = [mut EXCEPT ![m] = [pc |-> "found", op |-> "update", id |-> r]]
  /\ UNCHANGED <<db, index, facets, sync, bulk, unsynced, search, dbUp, bulkHist, pureVars, serviceVars>>

\* update, second await: repository.update with the input of the call, which
\* nothing reads before this step, then return (the sync call is a TODO
\* comment); a row deleted since findById makes the call throw.
Update(m, pub, v) ==
  /\ mut[m].pc = "found"
  /\ mut[m].op = "update"
  /\ LET r == mut[m].id
         written == dbUp /\ IsLive(db, r)
     IN /\ db' = IF written THEN RepoUpdate(db, r, pub, v) ELSE db
        /\ unsynced' = IF written THEN unsynced \cup {r} ELSE unsynced
  /\ mut' = [mut EXCEPT ![m] = IdleMutation]
  /\ UNCHANGED <<index, facets, sync, bulk, search, dbUp, bulkHist, pureVars, serviceVars>>

\* delete, first await: findById has found the row and the ownership check
\* has passed.
DeleteFindById(m, r) ==
  /\ mut[m].pc = "idle"
  /\ dbUp
  /\ db[r].st = "live"
  /\ mut' = [mut EXCEPT ![m] = [pc |-> "found", op |-> "delete", id |-> r]]
  /\ UNCHANGED <<db, index, facets, sync, bulk, unsynced, search, dbUp, bulkHist, pureVars, serviceVars>>

\* delete, second await: repository.delete, then return true (the sync call
\* is a TODO comment); a row deleted since findById makes the call throw.
Delete(m) ==
  /\ mut[m].pc = "found"
  /\ mut[m].op = "delete"
  /\ LET r == mut[m].id
         written == dbUp /\ IsLive(db, r)
     IN /\ db' = IF written THEN RepoDelete(db, r) ELSE db
        /\ unsynced' = IF written THEN unsynced \cup {r} ELSE unsynced
  /\ mut' = [mut EXCEPT ![m] = IdleMutation]
  /\ UNCHANGED <<index, facets, sync, bulk, search, dbUp, bulkHist, pureVars, serviceVars>>

\* ---------------------------------------------------- ElasticsearchService
\* client.index with refresh wait_for: the answer of the engine.
ClientIndex(up) == IF up THEN "indexed" ELSE "error"

\* client.delete: 200 deleted, 404 when the document is absent, or a failure.
ClientDelete(idx, r, up) ==
  IF ~up THEN "error" ELSE IF HasDoc(idx, r) THEN "deleted" ELSE "404"

PutDoc(idx, r, doc) == [idx EXCEPT ![r] = doc]
RemoveDoc(idx, r) == [idx EXCEPT ![r] = NoDoc]

\* client.update({ index, id, doc }): the fields given replace those of the
\* document stored; the engine answers 404 when there is none.
ClientUpdate(idx, r, up) ==
  IF ~up THEN "error" ELSE IF HasDoc(idx, r) THEN "updated" ELSE "404"
MergeDoc(idx, r, pub) == [idx EXCEPT ![r].isPublic = pub]

\* updateDocument('recipes', id, { isPublic }): no code of the repository
\* calls it; every failure, a 404 included, is logged and rethrown.
UpdateDocument(r, pub, up) ==
  /\ index' = IF ClientUpdate(index, r, up) = "updated" THEN MergeDoc(index, r, pub)
              ELSE index
  /\ UNCHANGED <<db, mut, facets, sync, bulk, unsynced, search, dbUp, bulkHist, pureVars, serviceVars>>

\* updateDocument('ingredients', id, { usageCount }), likewise.
UpdateIngredientDocument(k, usageCount, up) ==
  /\ facets' = IF up /\ facets[k].present THEN [facets EXCEPT ![k].usageCount = usageCount]
               ELSE facets
  /\ UNCHANGED <<db, mut, index, sync, bulk, unsynced, search, dbUp, bulkHist, pureVars, serviceVars>>

\* --------------------------------------------- ElasticsearchSyncService
\* deleteRecipe's catch: a 404 is ignored, every other error is rethrown.
DeleteRecipeOutcomeRethrow404(resp) == IF resp = "deleted" THEN "ok" ELSE "threw"
DeleteRecipeOutcome(resp) ==
  IF resp = "deleted" THEN "ok"
  ELSE IF resp = "404" THEN "ok" ELSE "threw"

\* syncRecipe's catch: log, then throw error.
SyncRecipeOutcome(resp) == IF resp = "indexed" THEN "ok" ELSE "threw"

\* The write syncRecipe makes for the row it read: a non-public row goes to
\* deleteRecipe, a public one is projected and indexed.
SyncRecipeWriteUpdateOnly(idx, r, snap) == PutDoc(idx, r, Project(snap))
SyncRecipeWrite(idx, r, snap) ==
  IF ~snap.isPublic THEN RemoveDoc(idx, r) ELSE PutDoc(idx, r, Project(snap))

\* prisma.ingredient.count({ name: { equals, mode: 'insensitive' } }).
\* The ingredient rows of the live recipes, a recipe id with the place of the
\* row among the ingredients of the recipe.
IngredientRows(d) ==
  UNION {{<<r, i>> : i \in DOMAIN IngredientsOf(r, d[r].ver)} :
           r \in {x \in RecipeIds : IsLive(d, x)}}
RowName(d, row) == IngredientsOf(row[1], d[row[1]].ver)[row[2]]
IngredientCount(d, lname) ==
  Cardinality({row \in IngredientRows(d) :
                 ToLowerCase(RowName(d, row)) = ToLowerCase(lname)})

\* Sequences without repetition over S, at most n long.
Pages(S, n) ==
  UNION {{q \in [1..k -> S] : \A i, j \in 1..k : q[i] = q[j] => i = j} : k \in 0..n}
\* The orders in which a query without orderBy can return the rows M.
Orders(M) == {x \in Pages(M, Cardinality(M)) : Len(x) = Cardinality(M)}

\* include: { ingredients: true } has no orderBy: the ingredient rows of a
\* recipe come in an order the database chooses.
IngredientOrders(names) ==
  {[i \in DOMAIN names |-> names[order[i]]] : order \in Orders(DOMAIN names)}
\* The ingredient rows a read can return for the rows snap of the recipes.
IncludedIngredients(snap) ==
  {rows \in [RecipeIds -> UNION {IngredientOrders(IngredientsOf(r, snap[r].ver)) : r \in RecipeIds}] :
     \A r \in RecipeIds : rows[r] \in IngredientOrders(IngredientsOf(r, snap[r].ver))}

\* [...new Set(ingredientNames.map(name => name.toLowerCase()))]: the distinct
\* lower-cased names, each where it first occurs.
RECURSIVE Distinct(_)
Distinct(q) ==
  IF Len(q) = 0 THEN <<>>
  ELSE LET front == Distinct(SubSeq(q, 1, Len(q) - 1))
       IN IF q[Len(q)] \in Range(front) THEN front ELSE Append(front, q[Len(q)])
UniqueIngredients(ingredientNames) ==
  Distinct([i \in DOMAIN ingredientNames |-> ToLowerCase(ingredientNames[i])])

\* The most rows of facet k that one content of recipe r carries.
RowsOfFacet(k, r, v) ==
  Cardinality({i \in DOMAIN IngredientsOf(r, v) :
                 ToLowerCase(ReplaceSpaces(ToLowerCase(IngredientsOf(r, v)[i]))) = k})
MostRows(k, r) ==
  CHOOSE n \in {RowsOfFacet(k, r, v) : v \in 1..MaxVer} :
    \A v \in 1..MaxVer : RowsOfFacet(k, r, v) <= n
\* The most rows of facet k the recipes ids can carry together.
RECURSIVE MostRowsOf(_, _)
MostRowsOf(k, ids) ==
  IF ids = {} THEN 0
  ELSE LET r == CHOOSE x \in ids : TRUE
       IN MostRows(k, r) + MostRowsOf(k, ids \ {r})
\* The greatest count a facet can hold.
MaxUsageCount ==
  CHOOSE n \in {MostRowsOf(k, RecipeIds) : k \in FacetIds} :
    \A k \in FacetIds : MostRowsOf(k, RecipeIds) <= n

\* syncIngredients' indexDocument('ingredients', id, { name, usageCount,
\* category }): the facet of the name holds the count given.
PutFacetAccumulate(f, ingredientName, usageCount) ==
  [f EXCEPT ![ToLowerCase(ReplaceSpaces(ingredientName))] =
     [present |-> TRUE, usageCount |-> (@.usageCount + 1) % (MaxUsageCount + 1)]]
PutFacet(f, ingredientName, usageCount) ==
  [f EXCEPT ![ToLowerCase(ReplaceSpaces(ingredientName))] =
     [present |-> TRUE, usageCount |-> usageCount]]

\* syncRecipe, first await: findUnique.  A missing row is logged and the
\* call returns.
SyncRecipeStart(r) ==
  /\ sync.pc \in {"idle", "done"}
  /\ db[r].st # "none"
  /\ IF ~dbUp
     THEN /\ sync' = [IdleSync EXCEPT !.pc = "done", !.op = "syncRecipe",
                                     !.id = r, !.outcome = "threw"]
          /\ UNCHANGED unsynced
     ELSE IF IsLive(db, r)
     THEN /\ sync' = [IdleSync EXCEPT !.pc = "fetched", !.op = "syncRecipe",
                                     !.id = r, !.snap = db[r]]
          /\ unsynced' = unsynced \ {r}
     ELSE /\ sync' = [IdleSync EXCEPT !.pc = "done", !.op = "syncRecipe",
                                     !.id = r, !.outcome = "ok"]
          /\ UNCHANGED unsynced
  /\ UNCHANGED <<db, mut, index, facets, bulk, search, dbUp, bulkHist, pureVars, serviceVars>>

\* syncRecipe, second await for a non-public row: deleteRecipe.
SyncRecipeUnpublish(up) ==
  /\ sync.pc = "fetched"
  /\ ~sync.snap.isPublic
  /\ LET resp == ClientDelete(index, sync.id, up)
         out == DeleteRecipeOutcome(resp)
     IN /\ index' = IF up THEN SyncRecipeWrite(index, sync.id, sync.snap) ELSE index
        /\ sync' = [IdleSync EXCEPT !.pc = "done", !.op = "syncRecipe",
                                    !.id = sync.id, !.engine = resp, !.outcome = out]
        /\ unsynced' = IF out = "threw" THEN unsynced \cup {sync.id} ELSE unsynced
  /\ UNCHANGED <<db, mut, facets, bulk, search, dbUp, bulkHist, pureVars, serviceVars>>

\* syncRecipe, second await for a public row: indexDocument('recipes'); then
\* syncIngredients is called with the names read, in the order findUnique
\* returned the ingredient rows, and asks for its first count.
SyncRecipeIndex(up) ==
  /\ sync.pc = "fetched"
  /\ sync.snap.isPublic
  /\ \E ingredients \in IngredientOrders(IngredientsOf(sync.id, sync.snap.ver)) :
     LET resp == ClientIndex(up)
         out == SyncRecipeOutcome(resp)
         names == UniqueIngredients(ingredients)
     IN /\ index' = IF up THEN SyncRecipeWrite(index, sync.id, sync.snap) ELSE index
        /\ sync' = IF out = "ok"
                   THEN [IdleSync EXCEPT
                           !.pc = IF Len(names) = 0 THEN "done" ELSE "ingredients",
                           !.op = "syncRecipe", !.id = sync.id, !.names = names,
                           !.engine = resp,
                           !.outcome = IF Len(names) = 0 THEN "ok" ELSE "none"]
                   ELSE [IdleSync EXCEPT !.pc = "done", !.op = "syncRecipe",
                                         !.id = sync.id, !.engine = resp,
                                         !.outcome = out]
        /\ unsynced' = IF out = "threw" THEN unsynced \cup {sync.id} ELSE unsynced
  /\ UNCHANGED <<db, mut, facets, bulk, search, dbUp, bulkHist, pureVars, serviceVars>>

\* syncIngredients called on its own (the method is public) with the names
\* given: it asks for the count of the first distinct name, or returns when
\* there is none.
SyncIngredients(ingredientNames) ==
  /\ sync.pc \in {"idle", "done"}
  /\ LET names == UniqueIngredients(ingredientNames)
     IN sync' = [IdleSync EXCEPT
                   !.pc = IF Len(names) = 0 THEN "done" ELSE "ingredients",
                   !.op = "syncIngredients", !.names = names,
                   !.outcome = IF Len(names) = 0 THEN "ok" ELSE "none"]
  /\ UNCHANGED <<db, mut, index, facets, bulk, unsynced, search, dbUp, bulkHist, pureVars, serviceVars>>

\* syncIngredients, inside syncRecipe or on its own: the await of
\* prisma.ingredient.count for the name in hand; a failing count is caught
\* and logged by syncIngredients and the call returns.
SyncRecipeCount ==
  /\ sync.pc = "ingredients"
  /\ sync' = IF dbUp
             THEN [sync EXCEPT !.pc = "counted",
                               !.count = IngredientCount(db, Head(sync.names))]
             ELSE [IdleSync EXCEPT !.pc = "done", !.op = sync.op,
                                   !.id = sync.id, !.engine = sync.engine,
                                   !.outcome = "ok"]
  /\ UNCHANGED <<db, mut, index, facets, bulk, unsynced, search, dbUp, bulkHist, pureVars, serviceVars>>

\* const document = { name: ingredientName, usageCount, category }, without
\* the category (a function of the name).
FacetDocument(ingredientName, usageCount) ==
  [name |-> ingredientName, usageCount |-> usageCount]

\* syncIngredients, inside syncRecipe or on its own: the await of
\* indexDocument('ingredients') with the count taken; then the next name, or
\* the call returns.  A failing write is caught and logged by syncIngredients
\* and the call returns.
SyncRecipeIngredients(up) ==
  /\ sync.pc = "counted"
  /\ facets' = IF up THEN PutFacet(facets, Head(sync.names), sync.count) ELSE facets
  /\ sync' = IF up /\ Len(sync.names) > 1
             THEN [sync EXCEPT !.pc = "ingredients", !.names = Tail(@), !.count = 0,
                               !.documents = Append(@, FacetDocument(Head(sync.names), sync.count))]
             ELSE [IdleSync EXCEPT !.pc = "done", !.op = sync.op,
                                   !.id = sync.id, !.engine = sync.engine,
                                   !.outcome = "ok"]
  /\ UNCHANGED <<db, mut, index, bulk, unsynced, search, dbUp, bulkHist, pureVars, serviceVars>>

\* A deleteRecipe that also removes the row of the recipe.
DeleteRecipeAndRow(r, up) ==
  /\ sync.pc \in {"idle", "done"}
  /\ db' = RepoDelete(db, r)
  /\ index' = IF up THEN RemoveDoc(index, r) ELSE index
  /\ sync' = [IdleSync EXCEPT !.pc = "done", !.op = "deleteRecipe", !.id = r]
  /\ UNCHANGED <<mut, facets, bulk, unsynced, search, dbUp, bulkHist, pureVars, serviceVars>>

\* deleteRecipe(recipeId) called on its own, for any id: the row is not read.
\* A live recipe whose document it removed is left to be synced.
DeleteRecipe(r, up) ==
  /\ sync.pc \in {"idle", "done"}
  /\ LET resp == ClientDelete(index, r, up)
         out == DeleteRecipeOutcome(resp)
     IN /\ index' = IF up THEN RemoveDoc(index, r) ELSE index
        /\ sync' = [IdleSync EXCEPT !.pc = "done", !.op = "deleteRecipe",
                                    !.id = r, !.engine = resp, !.outcome = out]
        /\ unsynced' = IF out = "threw" \/ IsLive(db, r) THEN unsynced \cup {r}
                       ELSE unsynced \ {r}
  /\ UNCHANGED <<db, mut, facets, bulk, search, dbUp, bulkHist, pureVars, serviceVars>>

\* bulkSyncRecipes, first await: findMany({ where: { isPublic: true } }).
BulkRead(d) == [r \in RecipeIds |-> IF IsPublicRow(d, r) THEN d[r] ELSE NoRow]
BulkDocuments(snap) == {r \in RecipeIds : snap[r].st = "live"}

\* ElasticsearchService.bulkIndex: the engine indexes the documents it
\* accepts; rejected items are logged and the response is returned.
BulkIndexAllOrNothing(idx, snap, rejected) ==
  [r \in RecipeIds |->
     IF r \in BulkDocuments(snap) /\ rejected = {} THEN Project(snap[r]) ELSE idx[r]]
BulkIndex(idx, snap, rejected) ==
  [r \in RecipeIds |->
     IF r \in BulkDocuments(snap) \ rejected THEN Project(snap[r]) ELSE idx[r]]

\* recipes.flatMap(recipe => recipe.ingredients.map(i => i.name)): the
\* recipes in the order findMany returned them, each with its ingredient rows
\* as returned.
RECURSIVE AllIngredients(_, _)
AllIngredients(ingredients, order) ==
  IF Len(order) = 0 THEN <<>>
  ELSE ingredients[Head(order)] \o AllIngredients(ingredients, Tail(order))

\* bulkSyncRecipes, first await.  With no public recipe there is nothing to
\* index and no name to sync: the call returns.
BulkSyncStart ==
  /\ bulk.pc \in {"idle", "done"}
  /\ LET empty == BulkDocuments(BulkRead(db)) = {}
     IN /\ bulk' = IF ~dbUp
                   THEN [IdleBulk EXCEPT !.pc = "done", !.outcome = "threw"]
                   ELSE IF empty
                   THEN [IdleBulk EXCEPT !.pc = "done", !.outcome = "ok"]
                   ELSE [IdleBulk EXCEPT !.pc = "fetched", !.snap = BulkRead(db)]
        /\ bulkHist' = [cur |-> IF ~dbUp THEN "failed"
                                ELSE IF empty THEN "accepted" ELSE "clean",
                        prev |-> bulkHist.cur = "accepted"]
  /\ UNCHANGED <<db, mut, index, facets, sync, unsynced, search, dbUp, pureVars, serviceVars>>

\* bulkSyncRecipes, second await: bulkIndex of the documents; then
\* syncIngredients is called with every name read and asks for its first
\* count.  A failed call is logged and rethrown.
BulkSyncIndex(up, rejected) ==
  /\ bulk.pc = "fetched"
  /\ rejected \subseteq BulkDocuments(bulk.snap)
  /\ IF up
     THEN /\ index' = BulkIndex(index, bulk.snap, rejected)
          /\ \E order \in Orders(BulkDocuments(bulk.snap)),
                ingredients \in IncludedIngredients(bulk.snap) :
               bulk' = [IdleBulk EXCEPT
                          !.pc = "ingredients",
                          !.names = UniqueIngredients(AllIngredients(ingredients, order)),
                          !.engine = IF rejected = {} THEN "indexed" ELSE "partial",
                          !.logged = rejected]
          /\ bulkHist' = [bulkHist EXCEPT !.cur = IF rejected = {} THEN @ ELSE "failed"]
     ELSE /\ UNCHANGED index
          /\ bulk' = [IdleBulk EXCEPT !.pc = "done", !.engine = "error",
                                      !.outcome = "threw"]
          /\ bulkHist' = [bulkHist EXCEPT !.cur = "failed"]
  /\ UNCHANGED <<db, mut, facets, sync, unsynced, search, dbUp, pureVars, serviceVars>>

\* syncIngredients inside bulkSyncRecipes, the await of
\* prisma.ingredient.count for the name in hand; a failing count is caught
\* and logged by syncIngredients and bulkSyncRecipes returns.
BulkSyncCount ==
  /\ bulk.pc = "ingredients"
  /\ bulk' = IF dbUp
             THEN [bulk EXCEPT !.pc = "counted",
                               !.count = IngredientCount(db, Head(bulk.names))]
             ELSE [IdleBulk EXCEPT !.pc = "done", !.engine = bulk.engine,
                                   !.logged = bulk.logged, !.outcome = "ok"]
  /\ bulkHist' = [bulkHist EXCEPT !.cur = IF dbUp THEN @ ELSE "failed"]
  /\ UNCHANGED <<db, mut, index, facets, sync, unsynced, search, dbUp, pureVars, serviceVars>>

\* syncIngredients inside bulkSyncRecipes, the await of
\* indexDocument('ingredients') with the count taken; then the next name, or
\* bulkSyncRecipes returns.  A failing write is caught and logged.
BulkSyncIngredients(up) ==
  /\ bulk.pc = "counted"
  /\ facets' = IF up THEN PutFacet(facets, Head(bulk.names), bulk.count) ELSE facets
  /\ bulk' = IF up /\ Len(bulk.names) > 1
             THEN [bulk EXCEPT !.pc = "ingredients", !.names = Tail(@), !.count = 0]
             ELSE [IdleBulk EXCEPT !.pc = "done", !.engine = bulk.engine,
                                   !.logged = bulk.logged, !.outcome = "ok"]
  /\ bulkHist' = [bulkHist EXCEPT
                    !.cur = IF ~up THEN "failed"
                            ELSE IF Len(bulk.names) > 1 THEN @
                            ELSE IF @ = "clean" THEN "accepted" ELSE "failed"]
  /\ UNCHANGED <<db, mut, index, sync, unsynced, search, dbUp, pureVars, serviceVars>>

\* ------------------------------------------------------------ the engine
\* Documents a recipes query can match: its must clause is isPublic = true.
Matchable(idx) == {r \in RecipeIds : idx[r].present /\ idx[r].isPublic}
\* hits.total as the engine reports it: a number or an object with a value.
TotalKinds == {"number", "object"}

\* ----------------------------------------------------------- SearchService
\* prisma.recipe.findMany({ where: { id: { in: ids }, isPublic: true } }).
FindManyAnyVisibility(d, ids) == {r \in RecipeIds : r \in ids /\ IsLive(d, r)}
FindManyPublic(d, ids) == {r \in RecipeIds : r \in ids /\ IsPublicRow(d, r)}

\* recipeIds.map(id => recipeMap.get(id)).filter(recipe => recipe !== undefined)
OrderedByFetch(recipeIds, rows) == SelectSeq(IdOrder, LAMBDA r : r \in rows /\ r \in Range(recipeIds))
OrderedRecipes(recipeIds, rows) == SelectSeq(recipeIds, LAMBDA r : r \in rows)

\* fetchRecipesFromDatabase: no ids, no query.
FetchRecipesFromDatabase(d, recipeIds) ==
  IF Len(recipeIds) = 0 THEN <<>>
  ELSE OrderedRecipes(recipeIds, FindManyPublic(d, Range(recipeIds)))

\* total: typeof hits.total === 'number' ? hits.total : hits.total?.value || 0
SearchResultTotalFromLength(hitsTotal, recipes) == Len(recipes)
SearchResultTotal(hitsTotal, recipes) ==
  IF hitsTotal.kind = "number" THEN hitsTotal.value
  ELSE IF hitsTotal.value # 0 THEN hitsTotal.value ELSE 0

\* searchRecipes / cookWithWhatIHave, first await: elasticsearchService.search.
\* A failed call is logged and rethrown.
SearchQuery(op, matched, hits, kind, up) ==
  /\ search.pc \in {"idle", "done"}
  /\ matched \subseteq Matchable(index)
  /\ hits \in Pages(matched, MaxHits)
  /\ search' = IF up
               THEN [IdleSearch EXCEPT !.pc = "queried", !.op = op, !.hits = hits,
                        !.hitsTotal = [kind |-> kind, value |-> Cardinality(matched)]]
               ELSE [IdleSearch EXCEPT !.pc = "done", !.op = op, !.outcome = "threw"]
  /\ UNCHANGED <<db, mut, index, facets, sync, bulk, unsynced, dbUp, bulkHist, pureVars, serviceVars>>

\* searchRecipes / cookWithWhatIHave, second await: fetchRecipesFromDatabase,
\* then the result is built.
SearchFetch ==
  /\ search.pc = "queried"
  /\ search' = IF Len(search.hits) # 0 /\ ~dbUp
               THEN [IdleSearch EXCEPT !.pc = "done", !.op = search.op,
                                       !.outcome = "threw"]
               ELSE LET recipes == FetchRecipesFromDatabase(db, search.hits)
                    IN [IdleSearch EXCEPT !.pc = "done", !.op = search.op,
                          !.hits = search.hits, !.recipes = recipes,
                          !.total = SearchResultTotal(search.hitsTotal, recipes),
                          !.outcome = "ok"]
  /\ UNCHANGED <<db, mut, index, facets, sync, bulk, unsynced, dbUp, bulkHist, pureVars, serviceVars>>

\* autocompleteIngredients: one query of the 'ingredients' index; a failed call
\* is logged and rethrown.
AutocompleteIngredients(suggestions, up) ==
  /\ search.pc \in {"idle", "done"}
  /\ suggestions \in Pages({k \in FacetIds : facets[k].present}, MaxHits)
  /\ search' = IF up
               THEN [IdleSearch EXCEPT !.pc = "done", !.op = "autocompleteIngredients",
                        !.suggestions = suggestions, !.outcome = "ok"]
               ELSE [IdleSearch EXCEPT !.pc = "done", !.op = "autocompleteIngredients",
                        !.outcome = "threw"]
  /\ UNCHANGED <<db, mut, index, facets, sync, bulk, unsynced, dbUp, bulkHist, pureVars, serviceVars>>

\* ------------------------------------------- SearchService: the queries
TermIsPublic == [kind |-> "term", field |-> "isPublic", flag |-> TRUE]
TermAuthorId(id) == [kind |-> "term", field |-> "authorId", value |-> id]
TermsClause(f, vs) == [kind |-> "terms", field |-> f, values |-> vs]
RangeClause(f, gte, lte) == [kind |-> "range", field |-> f, gte |-> gte, lte |-> lte]
MultiMatch(q) == [kind |-> "multi_match", query |-> q]
MatchPhraseTitle(q) == [kind |-> "match_phrase", field |-> "title", query |-> q, boost |-> 5]
MatchClause(f, q, b) == [kind |-> "match", field |-> f, query |-> q, boost |-> b]
\* buildSearchQuery's ingredient clause: nested match with fuzziness AUTO.
NestedIngredientMatch(name) ==
  [kind |-> "nested", path |-> "ingredients", score_mode |-> "avg",
   inner |-> <<MatchClause("ingredients.name", name, 1)>>]
\* cookWithWhatIHave's ingredient clause: nested bool of two should matches.
NestedIngredientShould(name) ==
  [kind |-> "nested", path |-> "ingredients", score_mode |-> "sum",
   inner |-> <<MatchClause("ingredients.name", name, 2),
               MatchClause("ingredients.name.keyword", name, 3)>>]

SortKey(f, missing) == [field |-> f, order |-> "desc", missing |-> missing]
\* The sort of buildSearchQuery.
SearchSortNoRatingKey ==
  <<SortKey("_score", None), SortKey("ratingsCount", None), SortKey("createdAt", None)>>
SearchSort ==
  <<SortKey("_score", None), SortKey("avgRating", Some("_last")),
    SortKey("ratingsCount", None), SortKey("createdAt", None)>>
\* The sort of cookWithWhatIHave.
CookSort ==
  <<SortKey("_score", None), SortKey("avgRating", Some("_last")),
    SortKey("ratingsCount", None), SortKey("createdAt", None)>>

\* const mustClauses = [{ term: { isPublic: true } }]
InitialMustClausesEmpty == <<>>
InitialMustClauses == <<TermIsPublic>>

\* searchQuery.ingredients.forEach(ingredient => mustClauses.push(nested))
IngredientClausesFirstOnly(ingredients) ==
  IF Len(ingredients) = 0 THEN <<>> ELSE <<NestedIngredientMatch(ingredients[1])>>
IngredientClauses(ingredients) ==
  [i \in 1..Len(ingredients) |-> NestedIngredientMatch(ingredients[i])]

\* The servings range: gte and lte are set when the bound is given.
ServingsRange(req) ==
  RangeClause("servings",
              IF TruthyNumber(req.minServings) THEN req.minServings ELSE None,
              IF TruthyNumber(req.maxServings) THEN req.maxServings ELSE None)

BuildSearchQuery(req) ==
  LET mustClauses ==
        InitialMustClauses \o
        (IF NonEmptyList(req.ingredients) THEN IngredientClauses(Val(req.ingredients))
         ELSE <<>>)
      shouldClauses ==
        IF TruthyString(req.query)
        THEN <<MultiMatch(Val(req.query)), MatchPhraseTitle(Val(req.query))>>
        ELSE <<>>
      filterClauses ==
        (IF NonEmptyList(req.cuisines)
         THEN <<TermsClause("cuisine", Val(req.cuisines))>> ELSE <<>>) \o
        (IF NonEmptyList(req.difficulties)
         THEN <<TermsClause("difficulty", Val(req.difficulties))>> ELSE <<>>) \o
        (IF TruthyNumber(req.maxCookingTime)
         THEN <<RangeClause("cookingTime", None, req.maxCookingTime)>> ELSE <<>>) \o
        (IF TruthyNumber(req.minServings) \/ TruthyNumber(req.maxServings)
         THEN <<ServingsRange(req)>> ELSE <<>>) \o
        (IF TruthyString(req.authorId)
         THEN <<TermAuthorId(Val(req.authorId))>> ELSE <<>>)
  IN [must |-> mustClauses,
      should |-> IF Len(shouldClauses) > 0 THEN Some(shouldClauses) ELSE None,
      filter |-> IF Len(filterClauses) > 0 THEN Some(filterClauses) ELSE None,
      minimum_should_match |-> IF Len(shouldClauses) > 0 THEN Some(1) ELSE None,
      sort |-> SearchSort]

\* from: searchQuery.skip || 0, size: searchQuery.take || 20
SearchFrom(req) == IF TruthyNumber(req.skip) THEN Val(req.skip) ELSE 0
SearchSize(req) == IF TruthyNumber(req.take) THEN Val(req.take) ELSE 20

\* minimum_should_match of the cookWithWhatIHave query.
CookNoMinimumShouldMatch == Some(0)
CookMinimumShouldMatch == Some(1)

\* The query object of cookWithWhatIHave(ingredients, limit).
CookWithWhatIHaveQuery(ingredients) ==
  [must |-> <<TermIsPublic>>,
   should |-> Some([i \in 1..Len(ingredients) |-> NestedIngredientShould(ingredients[i])]),
   filter |-> None,
   minimum_should_match |-> CookMinimumShouldMatch,
   sort |-> CookSort]

\* -------------------------------------------- the engine: bool queries
\* The ingredient_analyzer (standard tokenizer, lowercase) on one-word names.
AnalyzedMatch(q, n) == ToLowerCase(q) = ToLowerCase(n)
\* A keyword field matches the exact string.
KeywordMatch(q, n) == q = n

RECURSIVE SumSeq(_)
SumSeq(q) == IF Len(q) = 0 THEN 0 ELSE Head(q) + SumSeq(Tail(q))

\* The engine scores a term by BM25 (the default similarity; the index has
\* one shard, so the statistics are those of the whole index): boost * idf *
\* tf.  Every field of the model holds one token, which makes tf the same
\* 1 / (1 + k1) = 1 / 2.2 for every term; scores are kept in units of
\* 1 / 2200000, so that a term scores boost * Idf.
\* Idf(N, n): ln(1 + (N - n + 0.5) / (n + 0.5)) in millionths, for a term
\* held by n of the N documents (nested rows, for a field of the nested
\* ingredients) that have the field.
IdfTable ==
  << <<287682>>,
     <<693147, 182322>>,
     <<980829, 470004, 133531>>,
     <<1203973, 693147, 356675, 105361>>,
     <<1386294, 875469, 538997, 287682, 87011>>,
     <<1540445, 1029619, 693147, 441833, 241162, 74108>> >>
Idf(N, n) == IdfTable[N][n]

\* A match inside a nested clause matches the ingredient row of name n.
InnerMatches(m, n) ==
  IF m.field = "ingredients.name.keyword" THEN KeywordMatch(m.query, n)
  ELSE AnalyzedMatch(m.query, n)
\* The ingredient rows of the index, and those among them match m matches.
NestedRows(docs) == SumSeq([i \in DOMAIN docs |-> Cardinality(docs[i].names)])
RowsHolding(m, docs) ==
  SumSeq([i \in DOMAIN docs |-> Cardinality({n \in docs[i].names : InnerMatches(m, n)})])

\* The score one ingredient row gets from a match inside a nested clause,
\* in the index of documents docs.
InnerScore(m, n, docs) ==
  IF InnerMatches(m, n) THEN m.boost * Idf(NestedRows(docs), RowsHolding(m, docs)) ELSE 0
RowScore(c, n, docs) ==
  SumSeq([i \in 1..Len(c.inner) |-> InnerScore(c.inner[i], n, docs)])
MatchingRows(c, doc) ==
  {n \in doc.names : \E i \in 1..Len(c.inner) : InnerMatches(c.inner[i], n)}
RECURSIVE RowsScore(_, _, _)
RowsScore(c, rows, docs) ==
  IF rows = {} THEN 0
  ELSE LET n == CHOOSE x \in rows : TRUE
       IN RowScore(c, n, docs) + RowsScore(c, rows \ {n}, docs)

\* The text fields of the documents.  A title of the model is one word of
\* five letters: the standard analyzer makes it the one term of title, and
\* the autocomplete_analyzer (edge_ngram, min_gram 2) makes its four prefixes
\* the terms of title.autocomplete, so that every field is as long as the
\* average of its index.
EdgeNGrams(w) ==
  CASE w = "pasta" -> {"pa", "pas", "past", "pasta"}
    [] w = "paste" -> {"pa", "pas", "past", "paste"}
    [] w = "salad" -> {"sa", "sal", "sala", "salad"}
FieldTerms(f, doc) ==
  IF f = "title" THEN {ToLowerCase(doc.title)} ELSE EdgeNGrams(ToLowerCase(doc.title))
\* The fields of the multi_match of buildSearchQuery a document of the model
\* has terms in, with their boosts: the contents of the model have no
\* description and no instruction text, and ingredients.name belongs to the
\* nested rows, which a query outside a nested clause does not see.
MultiMatchFields ==
  <<[name |-> "title", boost |-> 3], [name |-> "title.autocomplete", boost |-> 2]>>
\* fuzziness AUTO on the words of the model: a query of up to two letters
\* takes the term itself, one of three to five letters the terms one edit
\* away as well; a term counts for 1 - edits / (length of the shorter of
\* the two), in hundredths.
Similarity(q, t) ==
  CASE q = t -> 100
    [] q = "pasta" /\ t = "paste" -> 80
    [] q = "pasta" /\ t = "past" -> 75
    [] OTHER -> 0

DocField(doc, f) ==
  CASE f = "cuisine" -> doc.cuisine
    [] f = "difficulty" -> doc.difficulty
    [] f = "cookingTime" -> doc.cookingTime
    [] f = "servings" -> doc.servings
    [] f = "authorId" -> doc.authorId

ClauseMatches(c, doc) ==
  CASE c.kind = "term" /\ c.field = "isPublic" -> doc.isPublic = c.flag
    [] c.kind = "term" /\ c.field # "isPublic" -> DocField(doc, c.field) = c.value
    [] c.kind = "terms" -> DocField(doc, c.field) \in Range(c.values)
    [] c.kind = "range" ->
         /\ IsSome(c.gte) => DocField(doc, c.field) >= Val(c.gte)
         /\ IsSome(c.lte) => DocField(doc, c.field) <= Val(c.lte)
    [] c.kind = "nested" -> MatchingRows(c, doc) # {}
    [] c.kind = "multi_match" ->
         \E f \in Range(MultiMatchFields) : \E t \in FieldTerms(f.name, doc) :
            Similarity(ToLowerCase(c.query), t) > 0
    [] c.kind = "match_phrase" -> doc.title = ToLowerCase(c.query)

\* The documents of the index clause c matches.
DocsHolding(c, docs) == Cardinality({i \in DOMAIN docs : ClauseMatches(c, docs[i])})

\* A fuzzy match of the word q on field f: the engine rewrites it to the
\* terms of the index within reach of q, each boosted by its similarity and
\* all weighed with the greatest document frequency among them.
Expanded(f, q, docs) ==
  {t \in UNION {FieldTerms(f, docs[i]) : i \in DOMAIN docs} : Similarity(q, t) > 0}
TermDocs(f, t, docs) == Cardinality({i \in DOMAIN docs : t \in FieldTerms(f, docs[i])})
BlendedDocs(f, q, docs) ==
  LET e == Expanded(f, q, docs)
  IN TermDocs(f, CHOOSE t \in e : \A u \in e : TermDocs(f, u, docs) <= TermDocs(f, t, docs),
              docs)
RECURSIVE SumSimilarity(_, _)
SumSimilarity(q, terms) ==
  IF terms = {} THEN 0
  ELSE LET t == CHOOSE x \in terms : TRUE
       IN Similarity(q, t) + SumSimilarity(q, terms \ {t})
FuzzyFieldScore(f, q, doc, docs) ==
  LET held == Expanded(f.name, q, docs) \cap FieldTerms(f.name, doc)
  IN IF held = {} THEN 0
     ELSE (f.boost * SumSimilarity(q, held) *
             Idf(Len(docs), BlendedDocs(f.name, q, docs))) \div 100
\* multi_match of type best_fields: the score of the best field.
MultiMatchScore(q, doc, docs) ==
  LET scores == {FuzzyFieldScore(MultiMatchFields[i], q, doc, docs) :
                   i \in DOMAIN MultiMatchFields}
  IN CHOOSE x \in scores : \A y \in scores : y <= x

\* The score of a matching clause in the index of documents docs; nested
\* clauses combine their rows by score_mode (sum, or the default avg).
ClauseScore(c, doc, docs) ==
  IF ~ClauseMatches(c, doc) THEN 0
  ELSE CASE c.kind = "nested" ->
              LET rows == MatchingRows(c, doc)
                  total == RowsScore(c, rows, docs)
              IN IF c.score_mode = "sum" THEN total ELSE total \div Cardinality(rows)
         [] c.kind = "multi_match" -> MultiMatchScore(ToLowerCase(c.query), doc, docs)
         [] c.kind = "match_phrase" -> c.boost * Idf(Len(docs), DocsHolding(c, docs))
         [] OTHER -> Idf(Len(docs), DocsHolding(c, docs))

Clauses(o) == IF IsSome(o) THEN Val(o) ELSE <<>>
MatchingShould(q, doc) ==
  {i \in DOMAIN Clauses(q.should) : ClauseMatches(Clauses(q.should)[i], doc)}

\* bool: every must and filter clause, and minimum_should_match should
\* clauses; the engine (elasticsearch 8.8.0) does not lower
\* minimum_should_match to the number of should clauses, so that no document
\* matches a query that asks for one of none.
EngineMatches(q, doc) ==
  /\ \A i \in DOMAIN q.must : ClauseMatches(q.must[i], doc)
  /\ \A i \in DOMAIN Clauses(q.filter) : ClauseMatches(Clauses(q.filter)[i], doc)
  /\ IsSome(q.minimum_should_match) =>
        Cardinality(MatchingShould(q, doc)) >= Val(q.minimum_should_match)

\* _score: the scores of the must clauses and of the matching should clauses.
EngineScore(q, doc, docs) ==
  SumSeq([i \in DOMAIN q.must |-> ClauseScore(q.must[i], doc, docs)]) +
  SumSeq([i \in DOMAIN Clauses(q.should) |-> ClauseScore(Clauses(q.should)[i], doc, docs)])

\* One sort key, descending: a comes strictly before b / the key ties.
KeyBefore(key, q, a, b, docs) ==
  CASE key.field = "_score" -> EngineScore(q, a, docs) > EngineScore(q, b, docs)
    [] key.field = "avgRating" ->
         IF key.missing = Some("_first")
         THEN \/ ~IsSome(a.avgRating) /\ IsSome(b.avgRating)
              \/ IsSome(a.avgRating) /\ IsSome(b.avgRating)
                   /\ Val(a.avgRating) > Val(b.avgRating)
         ELSE \/ IsSome(a.avgRating) /\ ~IsSome(b.avgRating)
              \/ IsSome(a.avgRating) /\ IsSome(b.avgRating)
                   /\ Val(a.avgRating) > Val(b.avgRating)
    [] key.field = "ratingsCount" -> a.ratingsCount > b.ratingsCount
    [] key.field = "createdAt" -> a.createdAt > b.createdAt
KeyTies(key, q, a, b, docs) ==
  ~KeyBefore(key, q, a, b, docs) /\ ~KeyBefore(key, q, b, a, docs)

\* The sort of the query puts a strictly before b.
SortsBefore(q, a, b, docs) ==
  \E i \in DOMAIN q.sort :
    /\ KeyBefore(q.sort[i], q, a, b, docs)
    /\ \A j \in 1..(i - 1) : KeyTies(q.sort[j], q, a, b, docs)

\* hits.hits: the matching documents (by position in docs) in sort order,
\* scored with the statistics of the index docs, ties in index order, cut to
\* the page from .. from + size.
EngineHits(q, docs, from, size) ==
  LET M == {i \in DOMAIN docs : EngineMatches(q, docs[i])}
      sorted == CHOOSE p \in {x \in Pages(M, Cardinality(M)) : Len(x) = Cardinality(M)} :
                  \A i, j \in DOMAIN p : i < j =>
                    /\ ~SortsBefore(q, docs[p[j]], docs[p[i]], docs)
                    /\ SortsBefore(q, docs[p[i]], docs[p[j]], docs) \/ p[i] < p[j]
  IN SubSeq(sorted, from + 1, IF from + size < Len(sorted) THEN from + size ELSE Len(sorted))

\* searchRecipes up to its engine call: the query is built from the input
\* (one of the requests).
SearchRecipesBuild(requests) ==
  /\ built.pc = "idle"
  /\ \E req \in requests :
       built' = [IdleBuilt EXCEPT !.pc = "built", !.op = "searchRecipes", !.req = req,
                   !.query = BuildSearchQuery(req),
                   !.from = SearchFrom(req), !.size = SearchSize(req)]
  /\ UNCHANGED <<db, mut, index, facets, sync, bulk, unsynced, search, dbUp, bulkHist, fallback, serviceVars>>

\* cookWithWhatIHave up to its engine call (one of the lists and limits).
CookWithWhatIHaveBuild(lists, limits) ==
  /\ built.pc = "idle"
  /\ \E ingredients \in lists, limit \in limits :
       built' = [IdleBuilt EXCEPT !.pc = "built", !.op = "cookWithWhatIHave",
                   !.names = ingredients,
                   !.query = CookWithWhatIHaveQuery(ingredients),
                   !.from = 0, !.size = limit]
  /\ UNCHANGED <<db, mut, index, facets, sync, bulk, unsynced, search, dbUp, bulkHist, fallback, serviceVars>>

\* The engine answers the query over the n (one or two) documents the index
\* holds.
EngineAnswer(documents, n) ==
  /\ built.pc = "built"
  /\ \E d1 \in documents, d2 \in documents :
       /\ n = 1 => d2 = d1
       /\ LET docs == IF n = 1 THEN <<d1>> ELSE <<d1, d2>>
          IN built' = [built EXCEPT !.pc = "answered", !.docs = docs,
                         !.hits = EngineHits(built.query, docs, built.from, built.size)]
  /\ UNCHANGED <<db, mut, index, facets, sync, bulk, unsynced, search, dbUp, bulkHist, fallback, serviceVars>>

\* ------------------------------------------------ the rows, column by column
\* The columns of a recipe the searches read.  The content version of a row
\* fixes its title and cuisine; difficulty and ratings belong to the recipe,
\* and the creation time is the one the row was given.
TitleOf(ver) == IF ver = 1 THEN "pasta" ELSE "salad"
CuisineOf(ver) == IF ver = 1 THEN "ITALIAN" ELSE "MEXICAN"
DifficultyOf(r) == IF r = "a" THEN "EASY" ELSE "HARD"
\* The createdAt column of row r: later rows hold greater values.
CreatedAt(d, r) == d[r].createdAt
Unrated == [avg |-> None, count |-> 0]
RatingOf(r) == IF r = "a" THEN [avg |-> Some(4), count |-> 1] ELSE Unrated

\* The document of recipe r as the queries read it: the indexed projection.
IndexedDoc(r, doc) ==
  [isPublic |-> doc.isPublic, names |-> Range(IngredientsOf(r, doc.ver)), title |-> TitleOf(doc.ver),
   cuisine |-> CuisineOf(doc.ver), difficulty |-> DifficultyOf(r), cookingTime |-> 20,
   servings |-> 3, authorId |-> "u1", avgRating |-> RatingOf(r).avg,
   ratingsCount |-> RatingOf(r).count, createdAt |-> doc.createdAt]

\* elasticsearchService.search('recipes', query) of searchRecipes, the engine
\* answering over the documents it holds: the ids of the hits, in order.
EngineSearchRecipes(idx, req) ==
  LET ids == SelectSeq(IdOrder, LAMBDA r : HasDoc(idx, r))
      docs == [i \in DOMAIN ids |-> IndexedDoc(ids[i], idx[ids[i]])]
      hits == EngineHits(BuildSearchQuery(req), docs, SearchFrom(req), SearchSize(req))
  IN [i \in DOMAIN hits |-> ids[hits[i]]]

\* ---------------------------------------------------- FallbackSearchService
\* contains with mode 'insensitive', on the strings of the model.
ContainsInsensitive(hay, needle) ==
  \/ ToLowerCase(hay) = ToLowerCase(needle)
  \/ needle = ""
  \/ ToLowerCase(needle) = "eg" /\ ToLowerCase(hay) = "egg"

\* Math.min(searchQuery.take || 20, 50)
FallbackTakeCap == 50
FallbackTake(req) ==
  LET take == IF TruthyNumber(req.take) THEN Val(req.take) ELSE 20
  IN IF take < FallbackTakeCap THEN take ELSE FallbackTakeCap
FallbackSkip(req) == IF TruthyNumber(req.skip) THEN Val(req.skip) ELSE 0

\* whereClause of searchRecipes, on the row of recipe r, after isPublic: the
\* text (title or an ingredient name contains it; the description column is
\* not part of the rows here), cuisine, difficulty,
\* cooking time, servings and author.  searchQuery.ingredients is not read.
FallbackFilters(d, r, req) ==
  /\ TruthyString(req.query) =>
        \/ ContainsInsensitive(TitleOf(d[r].ver), Val(req.query))
        \/ \E n \in Range(IngredientsOf(r, d[r].ver)) : ContainsInsensitive(n, Val(req.query))
  /\ NonEmptyList(req.cuisines) => CuisineOf(d[r].ver) \in Range(Val(req.cuisines))
  /\ NonEmptyList(req.difficulties) => DifficultyOf(r) \in Range(Val(req.difficulties))
  /\ TruthyNumber(req.maxCookingTime) => 20 <= Val(req.maxCookingTime)
  /\ TruthyNumber(req.minServings) => 3 >= Val(req.minServings)
  /\ TruthyNumber(req.maxServings) => 3 <= Val(req.maxServings)
  /\ TruthyString(req.authorId) => Val(req.authorId) = "u1"
\* A where clause without isPublic: private recipes pass.
FallbackWhereAnyVisibility(d, r, req) == IsLive(d, r) /\ FallbackFilters(d, r, req)
\* whereClause: { isPublic: true, ... }
FallbackWhere(d, r, req) == IsPublicRow(d, r) /\ FallbackFilters(d, r, req)

\* prisma.recipe.count({ where })
FallbackCount(d, req) == Cardinality({r \in RecipeIds : FallbackWhere(d, r, req)})

\* prisma.recipe.findMany({ where, orderBy: createdAt desc, skip, take })
FallbackFindMany(d, req) ==
  LET M == {r \in RecipeIds : FallbackWhere(d, r, req)}
      sorted == CHOOSE p \in {x \in Pages(M, Cardinality(M)) : Len(x) = Cardinality(M)} :
                  \A i, j \in DOMAIN p : i < j => CreatedAt(d, p[i]) > CreatedAt(d, p[j])
      last == FallbackSkip(req) + FallbackTake(req)
  IN SubSeq(sorted, FallbackSkip(req) + 1, IF last < Len(sorted) THEN last ELSE Len(sorted))

\* FallbackSearchService.searchRecipes for one of the requests, first await:
\* prisma.recipe.count.
FallbackSearchRecipesCount(requests) ==
  /\ fallback.pc = "idle"
  /\ dbUp
  /\ \E req \in requests :
       fallback' = [IdleFallback EXCEPT !.pc = "counted", !.req = req,
                      !.skip = FallbackSkip(req), !.take = FallbackTake(req),
                      !.total = FallbackCount(db, req)]
  /\ UNCHANGED <<db, mut, index, facets, sync, bulk, unsynced, search, dbUp, bulkHist, built, serviceVars>>

\* FallbackSearchService.searchRecipes, second await: prisma.recipe.findMany
\* of the rows as they are now; the result holds the total counted before.
FallbackSearchRecipesFindMany ==
  /\ fallback.pc = "counted"
  /\ dbUp
  /\ fallback' = [fallback EXCEPT !.pc = "fallback",
                     !.recipes = FallbackFindMany(db, fallback.req)]
  /\ UNCHANGED <<db, mut, index, facets, sync, bulk, unsynced, search, dbUp, bulkHist, built, serviceVars>>

\* where of cookWithWhatIHave: isPublic, and some ingredient row whose name
\* is, letter case ignored, one of the lower-cased names given.
FallbackCookWhere(d, r, names) ==
  /\ IsPublicRow(d, r)
  /\ \E n \in Range(IngredientsOf(r, d[r].ver)) : \E k \in DOMAIN names :
       ToLowerCase(n) = ToLowerCase(ToLowerCase(names[k]))

\* FallbackSearchService.cookWithWhatIHave for one of the lists of names and
\* one of the options: findMany with where, skip and take and no orderBy, so
\* the rows come in an order the database chooses; total is the page length.
FallbackCookWithWhatIHave(lists, options) ==
  /\ fallback.pc = "idle"
  /\ dbUp
  /\ \E names \in lists, opt \in options :
       LET M == {r \in RecipeIds : FallbackCookWhere(db, r, names)}
           last == FallbackSkip(opt) + FallbackTake(opt)
       IN \E order \in Orders(M) :
            LET page == SubSeq(order, FallbackSkip(opt) + 1,
                               IF last < Len(order) THEN last ELSE Len(order))
            IN fallback' = [IdleFallback EXCEPT !.pc = "cook", !.names = names,
                              !.skip = FallbackSkip(opt), !.take = FallbackTake(opt),
                              !.total = Len(page), !.recipes = page]
  /\ UNCHANGED <<db, mut, index, facets, sync, bulk, unsynced, search, dbUp, bulkHist, built, serviceVars>>

\* SearchService.searchRecipes for the request the fallback was given, first
\* await: the engine answers the query.
SearchRecipesSameRequest ==
  /\ fallback.pc = "fallback"
  /\ fallback' = [fallback EXCEPT !.pc = "queried",
                     !.from = SearchFrom(fallback.req), !.size = SearchSize(fallback.req),
                     !.hits = EngineSearchRecipes(index, fallback.req)]
  /\ UNCHANGED <<db, mut, index, facets, sync, bulk, unsynced, search, dbUp, bulkHist, built, serviceVars>>

\* SearchService.searchRecipes for the same request, second await:
\* fetchRecipesFromDatabase of the ids of the hits.
SearchRecipesSameRequestFetch ==
  /\ fallback.pc = "queried"
  /\ dbUp
  /\ fallback' = [fallback EXCEPT !.pc = "both",
                     !.primary = FetchRecipesFromDatabase(db, fallback.hits)]
  /\ UNCHANGED <<db, mut, index, facets, sync, bulk, unsynced, search, dbUp, bulkHist, built, serviceVars>>

\* The database becomes unreachable, or reachable again.
ToggleDatabase ==
  /\ dbUp' = ~dbUp
  /\ UNCHANGED <<db, mut, index, facets, sync, bulk, unsynced, search, bulkHist, pureVars, serviceVars>>

\* No call of the services beside the stores has been made; both indices
\* exist as createIndex makes them.
ServicesIdle ==
  /\ es = IdleEs
  /\ limiter = IdleLimiter
  /\ race = IdleRace
  /\ pubsub = IdlePubSub
  /\ categorized = NotCategorized

\* Empty stores and no call in flight.
StoresEmpty ==
  /\ db = [r \in RecipeIds |-> NoRow]
  /\ mut = [m \in Mutators |-> IdleMutation]
  /\ index = [r \in RecipeIds |-> NoDoc]
  /\ facets = [k \in FacetIds |-> NoFacet]
  /\ sync = IdleSync
  /\ bulk = IdleBulk
  /\ unsynced = {}
  /\ search = IdleSearch
  /\ dbUp = TRUE
  /\ bulkHist = NoBulkHist
  /\ built = IdleBuilt
  /\ fallback = IdleFallback

Init == StoresEmpty /\ ServicesIdle

\* The sync service whole, incremental calls and bulk resyncs, beside the
\* creations and the deletions of RecipesService.
\* The lists syncIngredients is given when called on its own: none, a name
\* no recipe may carry yet, and two names that differ in letter case only.
SyncIngredientsLists == {<<>>, <<"flour">>, <<"Egg", "egg">>}

\* The calls of the sync service beside creations and a deletion.  Recipe "a"
\* is created with either content and can be deleted, recipe "b" is created
\* with its first content; the engine takes or fails the request of a bulk run
\* as a whole (SpecBulk has the runs with rejected documents, SpecIncremental
\* the updates and the deletion of either recipe).
Creations ==
  {[id |-> "a", isPublic |-> pub, ver |-> v] : pub \in BOOLEAN, v \in 1..MaxVer} \cup
  {[id |-> "b", isPublic |-> pub, ver |-> 1] : pub \in BOOLEAN}

Next ==
  \/ \E c \in Creations : Create(c.id, c.isPublic, c.ver)
  \/ DeleteFindById("m1", "a")
  \/ Delete("m1")
  \/ \E r \in RecipeIds : SyncRecipeStart(r)
  \/ \E up \in BOOLEAN : SyncRecipeUnpublish(up)
  \/ \E up \in BOOLEAN : SyncRecipeIndex(up)
  \/ SyncRecipeCount
  \/ \E up \in BOOLEAN : SyncRecipeIngredients(up)
  \/ \E ingredientNames \in SyncIngredientsLists : SyncIngredients(ingredientNames)
  \/ \E r \in RecipeIds, up \in BOOLEAN : DeleteRecipe(r, up)
  \/ BulkSyncStart
  \/ \E up \in BOOLEAN : BulkSyncIndex(up, {})
  \/ BulkSyncCount
  \/ \E up \in BOOLEAN : BulkSyncIngredients(up)

Spec == Init /\ [][Next]_vars

\* RecipesService alone, two calls of update or delete at a time.
NextMutations ==
  \/ \E r \in RecipeIds, pub \in BOOLEAN, v \in 1..MaxVer : Create(r, pub, v)
  \/ \E m \in Mutators, r \in RecipeIds : UpdateFindById(m, r)
  \/ \E m \in Mutators, pub \in BOOLEAN, v \in 1..MaxVer : Update(m, pub, v)
  \/ \E m \in Mutators, r \in RecipeIds : DeleteFindById(m, r)
  \/ \E m \in Mutators : Delete(m)

SpecMutations == Init /\ [][NextMutations]_vars

\* The RecipesService calls, one update or delete between its awaits at a
\* time, beside the incremental sync calls.
NextIncremental ==
  \/ \E r \in RecipeIds, pub \in BOOLEAN, v \in 1..MaxVer : Create(r, pub, v)
  \/ \E r \in RecipeIds : UpdateFindById("m1", r)
  \/ \E pub \in BOOLEAN, v \in 1..MaxVer : Update("m1", pub, v)
  \/ \E r \in RecipeIds : DeleteFindById("m1", r)
  \/ Delete("m1")
  \/ \E r \in RecipeIds : SyncRecipeStart(r)
  \/ \E up \in BOOLEAN : SyncRecipeUnpublish(up)
  \/ \E up \in BOOLEAN : SyncRecipeIndex(up)
  \/ SyncRecipeCount
  \/ \E up \in BOOLEAN : SyncRecipeIngredients(up)
  \/ \E ingredientNames \in SyncIngredientsLists : SyncIngredients(ingredientNames)
  \/ \E r \in RecipeIds, up \in BOOLEAN : DeleteRecipe(r, up)

SpecIncremental == Init /\ [][NextIncremental]_vars

\* Any store the write path can leave behind with no call in flight: any
\* rows, created in any order; for every id that was ever created either no document or a document
\* of some public content of it; and for every name either no facet or a
\* facet with a count, from 0 (syncIngredients writes a facet for a name no
\* row carries) up to the rows of the name that the recipes created can
\* carry.
StoresLeftBehind ==
  /\ db \in [RecipeIds -> Rows]
  /\ mut = [m \in Mutators |-> IdleMutation]
  /\ index \in [RecipeIds -> {NoDoc} \cup {Project(row) : row \in {w \in LiveRows : w.isPublic}}]
  /\ \A r \in RecipeIds : index[r].present => db[r].st # "none"
  /\ WellTimed(db, index)
  /\ facets \in [FacetIds -> {NoFacet} \cup
                    {[present |-> TRUE, usageCount |-> c] : c \in 0..MaxUsageCount}]
  /\ \A k \in FacetIds : facets[k].present =>
        facets[k].usageCount <= MostRowsOf(k, {r \in RecipeIds : db[r].st # "none"})
  /\ sync = IdleSync
  /\ bulk = IdleBulk
  /\ unsynced = {r \in RecipeIds : db[r].st # "none"}
  /\ search = IdleSearch
  /\ dbUp = TRUE
  /\ bulkHist = NoBulkHist
  /\ built = IdleBuilt
  /\ fallback = IdleFallback
  /\ ServicesIdle

\* The recipe searches read the rows and the 'recipes' index and no facet:
\* they start from the stores left behind that hold no facet (every facet
\* write failed).
InitSearch == StoresLeftBehind /\ \A k \in FacetIds : ~facets[k].present

NextSearch ==
  \/ \E r \in RecipeIds : UpdateFindById("m1", r)
  \/ \E pub \in BOOLEAN, v \in 1..MaxVer : Update("m1", pub, v)
  \/ \E r \in RecipeIds : DeleteFindById("m1", r)
  \/ Delete("m1")
  \/ \E op \in {"searchRecipes", "cookWithWhatIHave"}, matched \in SUBSET RecipeIds,
        hits \in Pages(RecipeIds, MaxHits), kind \in TotalKinds, up \in BOOLEAN :
        SearchQuery(op, matched, hits, kind, up)
  \/ SearchFetch
  \/ ToggleDatabase

SpecSearch == InitSearch /\ [][NextSearch]_vars

\* Bulk resyncs with no mutation and no incremental sync beside them, from any
\* store the write path can leave behind, and the autocomplete queries that
\* read the facets they write.
InitBulk == StoresLeftBehind

NextBulk ==
  \/ BulkSyncStart
  \/ \E up \in BOOLEAN, rejected \in SUBSET RecipeIds : BulkSyncIndex(up, rejected)
  \/ BulkSyncCount
  \/ \E up \in BOOLEAN : BulkSyncIngredients(up)
  \/ \E suggestions \in Pages(FacetIds, MaxHits), up \in BOOLEAN :
        AutocompleteIngredients(suggestions, up)

SpecBulk == InitBulk /\ [][NextBulk]_vars

\* The incremental sync calls beside calls of updateDocument, from any store
\* the write path can leave behind.
NextEngine ==
  \/ \E r \in RecipeIds, pub \in BOOLEAN, up \in BOOLEAN : UpdateDocument(r, pub, up)
  \/ \E k \in FacetIds, usageCount \in 0..MaxUsageCount, up \in BOOLEAN :
        UpdateIngredientDocument(k, usageCount, up)
  \/ \E r \in RecipeIds : SyncRecipeStart(r)
  \/ \E up \in BOOLEAN : SyncRecipeUnpublish(up)
  \/ \E up \in BOOLEAN : SyncRecipeIndex(up)
  \/ SyncRecipeCount
  \/ \E up \in BOOLEAN : SyncRecipeIngredients(up)
  \/ \E ingredientNames \in SyncIngredientsLists : SyncIngredients(ingredientNames)
  \/ \E r \in RecipeIds, up \in BOOLEAN : DeleteRecipe(r, up)

SpecEngine == StoresLeftBehind /\ [][NextEngine]_vars

\* ----------------------------------------------- inputs of the query specs
\* Names a client asks for, and names the ingredient rows of a document carry.
QueryNames == {"egg", "flour"}
DocNames == {"Egg", "egg", "flour"}
NameLists(n) == UNION {[1..k -> QueryNames] : k \in 0..n}
\* The lists cookWithWhatIHave is given, the empty one among them.
CookLists == NameLists(MaxNames)
\* limit: the default and a page of one.
CookLimits == {1, 20}

SearchRequests ==
  [query : {None, Some(""), Some("pasta")},
   ingredients : {None} \cup {Some(l) : l \in NameLists(MaxNames)},
   cuisines : {None, Some(<<>>), Some(<<"ITALIAN">>)},
   difficulties : {None, Some(<<"EASY">>)},
   maxCookingTime : {None, Some(30)},
   minServings : {None, Some(2)},
   maxServings : {None, Some(4)},
   authorId : {None, Some("u1")},
   skip : {None}, take : {None}]
\* The requests whose hits are ranked: free text and one ingredient, no filter.
RankRequests ==
  {r \in SearchRequests :
     /\ r.query \in {None, Some("pasta")}
     /\ r.ingredients \in {None, Some(<<"egg">>)}
     /\ r.cuisines = None /\ r.difficulties = None /\ r.maxCookingTime = None
     /\ r.minServings = None /\ r.maxServings = None /\ r.authorId = None}

\* avgRating (null when there is no rating) and ratingsCount of a document.
Ratings == {[avg |-> None, count |-> 0], [avg |-> Some(4), count |-> 1],
            [avg |-> Some(4), count |-> 2], [avg |-> Some(5), count |-> 1]}
\* A document of the 'recipes' index, as the queries read it.
EngineDoc(pub, names, title, rating, createdAt) ==
  [isPublic |-> pub, names |-> names, title |-> title, cuisine |-> "ITALIAN",
   difficulty |-> "EASY", cookingTime |-> 20, servings |-> 3, authorId |-> "u1",
   avgRating |-> rating.avg, ratingsCount |-> rating.count, createdAt |-> createdAt]
SingleDocs ==
  {EngineDoc(pub, ns, t, Unrated, 1) :
     pub \in BOOLEAN, ns \in SUBSET DocNames, t \in {"pasta", "salad"}}
RankDocs ==
  {EngineDoc(pub, ns, t, rt, c) :
     pub \in BOOLEAN, ns \in SUBSET DocNames, t \in {"pasta", "paste"},
     rt \in Ratings, c \in 1..2}
\* The documents cookWithWhatIHave is answered over: its query reads no
\* title, and they all have the same.
CookDocs == {d \in RankDocs : d.title = "pasta"}

\* What the queries of SearchService select: any request against one document.
NextQuery ==
  \/ SearchRecipesBuild(SearchRequests)
  \/ CookWithWhatIHaveBuild(CookLists, CookLimits)
  \/ EngineAnswer(SingleDocs, 1)

SpecQuery == Init /\ [][NextQuery]_vars

\* How the queries of SearchService rank: two documents under one query.
NextRank ==
  \/ SearchRecipesBuild(RankRequests)
  \/ CookWithWhatIHaveBuild(CookLists, CookLimits)
  \/ built.op = "searchRecipes" /\ EngineAnswer(RankDocs, 2)
  \/ built.op = "cookWithWhatIHave" /\ EngineAnswer(CookDocs, 2)

SpecRank == Init /\ [][NextRank]_vars

\* ------------------------------------------- the fallback beside the primary
\* @Max(100) of SearchQueryInput.take.
MaxTake == 100
FallbackRequests ==
  [query : {None, Some("eg")},
   ingredients : {None, Some(<<"egg">>), Some(<<"flour">>)},
   cuisines : {None, Some(<<"ITALIAN">>)},
   difficulties : {None, Some(<<"EASY">>)},
   maxCookingTime : {None}, minServings : {None}, maxServings : {None},
   authorId : {None},
   skip : {None, Some(1)},
   take : {None, Some(1), Some(FallbackTakeCap), Some(FallbackTakeCap + 1), Some(MaxTake)}]

\* Any rows, created in any order, and an index in sync with them: a
\* document, the projection of the row, for exactly the public recipes.
InitFallback ==
  /\ db \in [RecipeIds -> Rows]
  /\ mut = [m \in Mutators |-> IdleMutation]
  /\ index = [r \in RecipeIds |-> IF IsPublicRow(db, r) THEN Project(db[r]) ELSE NoDoc]
  /\ WellTimed(db, index)
  /\ facets = [k \in FacetIds |-> NoFacet]
  /\ sync = IdleSync
  /\ bulk = IdleBulk
  /\ unsynced = {}
  /\ search = IdleSearch
  /\ dbUp = TRUE
  /\ bulkHist = NoBulkHist
  /\ built = IdleBuilt
  /\ fallback = IdleFallback
  /\ ServicesIdle

\* options of the fallback cookWithWhatIHave.
FallbackCookOptions == [skip : {None}, take : {None, Some(1)}]

NextFallback ==
  \/ FallbackSearchRecipesCount(FallbackRequests)
  \/ FallbackSearchRecipesFindMany
  \/ FallbackCookWithWhatIHave(CookLists, FallbackCookOptions)
  \/ SearchRecipesSameRequest
  \/ SearchRecipesSameRequestFetch

SpecFallback == InitFallback /\ [][NextFallback]_vars

\* The requests without text and filters.
PlainRequests ==
  {req \in FallbackRequests :
     /\ req.query = None /\ req.ingredients = None
     /\ req.cuisines = None /\ req.difficulties = None}

\* The same calls, for the requests without text and filters, beside the
\* calls of RecipesService, which commit between the awaits of a search.
NextFallbackBeside ==
  \/ FallbackSearchRecipesCount(PlainRequests)
  \/ FallbackSearchRecipesFindMany
  \/ FallbackCookWithWhatIHave(CookLists, FallbackCookOptions)
  \/ SearchRecipesSameRequest
  \/ SearchRecipesSameRequestFetch
  \/ \E r \in RecipeIds, pub \in BOOLEAN, v \in 1..MaxVer : Create(r, pub, v)
  \/ \E r \in RecipeIds : UpdateFindById("m1", r)
  \/ \E pub \in BOOLEAN, v \in 1..MaxVer : Update("m1", pub, v)
  \/ \E r \in RecipeIds : DeleteFindById("m1", r)
  \/ Delete("m1")

SpecFallbackBeside == InitFallback /\ [][NextFallbackBeside]_vars

\* ------------------------------------------ ElasticsearchService at startup
\* if (!exists)
NeedsCreateNever(kind) == FALSE
NeedsCreate(kind) == kind = "absent"

\* catch (error) { this.logger.error(...) } of onModuleInit: nothing is
\* thrown on.
OnModuleInitRethrows(threw) == threw
OnModuleInitRaises(threw) == FALSE

\* An error of the engine leaves the call: createIndicesIfNotExists called on
\* its own (the setup script) throws it to the caller, onModuleInit catches
\* and logs it.
EsFailed ==
  IF es.call = "init"
  THEN [es EXCEPT !.pc = "done", !.logged = TRUE, !.threw = OnModuleInitRaises(TRUE)]
  ELSE [es EXCEPT !.pc = "done", !.threw = TRUE]

\* The loop of createIndicesIfNotExists moves to the next index, or returns.
EsAdvance(e) ==
  IF e.i = Len(IndexNames) THEN [e EXCEPT !.pc = "done", !.ensured = TRUE]
  ELSE [e EXCEPT !.pc = "exists", !.i = e.i + 1]

\* ElasticsearchService.onModuleInit is called.
OnModuleInit ==
  /\ es.pc \in {"idle", "done"}
  /\ es' = [es EXCEPT !.pc = "ping", !.call = "init", !.i = 1, !.threw = FALSE,
               !.logged = FALSE, !.created = {}]
  /\ UNCHANGED <<storeVars, pureVars, limiter, race, pubsub, categorized>>

\* ElasticsearchService.createIndicesIfNotExists is called on its own.
CreateIndicesIfNotExists ==
  /\ es.pc \in {"idle", "done"}
  /\ es' = [es EXCEPT !.pc = "exists", !.call = "ensure", !.i = 1, !.threw = FALSE,
               !.logged = FALSE, !.created = {}]
  /\ UNCHANGED <<storeVars, pureVars, limiter, race, pubsub, categorized>>

\* await this.client.ping()
EsPing ==
  /\ es.pc = "ping"
  /\ \E ok \in BOOLEAN :
       es' = IF ok THEN [es EXCEPT !.pc = "exists"] ELSE EsFailed
  /\ UNCHANGED <<storeVars, pureVars, limiter, race, pubsub, categorized>>

\* await this.client.indices.exists({ index }); if (!exists) ...
EsIndicesExists ==
  /\ es.pc = "exists"
  /\ \E ok \in BOOLEAN :
       es' = IF ~ok THEN EsFailed
             ELSE IF NeedsCreate(es.indices[IndexNames[es.i]])
                  THEN [es EXCEPT !.pc = "create"]
                  ELSE EsAdvance(es)
  /\ UNCHANGED <<storeVars, pureVars, limiter, race, pubsub, categorized>>

\* await this.createIndex(index): indices.create with the settings and the
\* mappings.  The engine rejects the creation of an index that exists.
EsCreateIndex ==
  /\ es.pc = "create"
  /\ \E ok \in BOOLEAN :
       LET n == IndexNames[es.i]
       IN es' = IF ~ok \/ es.indices[n] # "absent" THEN EsFailed
                ELSE EsAdvance([es EXCEPT !.indices[n] = "ours",
                                          !.created = @ \cup {n}])
  /\ UNCHANGED <<storeVars, pureVars, limiter, race, pubsub, categorized>>

\* The engine at startup holds any of the indices, made by createIndex or not.
InitStartup ==
  /\ StoresEmpty
  /\ es \in {[IdleEs EXCEPT !.indices = ix] :
               ix \in [{IndexNames[i] : i \in DOMAIN IndexNames} -> IndexKinds]}
  /\ limiter = IdleLimiter
  /\ race = IdleRace
  /\ pubsub = IdlePubSub
  /\ categorized = NotCategorized

NextStartup ==
  \/ OnModuleInit
  \/ CreateIndicesIfNotExists
  \/ EsPing
  \/ EsIndicesExists
  \/ EsCreateIndex

SpecStartup == InitStartup /\ [][NextStartup]_vars

\* ----------------------------------------------------------- AIRateLimitGuard
\* if (hourlyRequests >= this.maxRequestsPerHour) ... if (dailyRequests >=
\* this.maxRequestsPerDay) ... if (dailyTokens >= this.maxTokensPerDay) ...:
\* the request is turned away.
OverLimit(hourlyRequests, dailyRequests, dailyTokens) ==
  \/ hourlyRequests >= MaxRequestsPerHour
  \/ dailyRequests >= MaxRequestsPerDay
  \/ dailyTokens >= MaxTokensPerDay

\* getCount: parseInt of the value RedisService.get returns, which is null
\* when there is no value and when the read fails.
GetCount(value, answered) == IF answered THEN value ELSE 0

\* canActivate up to its first await: hourKey, dayKey and tokensKey are built
\* from the clock, and getCount reads each of them; Redis answers or refuses
\* each read on its own.
GuardGetCounts(q, hourAnswered, dayAnswered, tokensAnswered) ==
  /\ limiter.req[q].pc = "idle"
  /\ limiter.admittedDay < MaxRequestsPerDay + MaxExtraRequests
  /\ limiter' = [limiter EXCEPT !.req[q] =
                    [IdleRequest EXCEPT
                       !.pc = "counted",
                       !.hourKey = limiter.now,
                       !.hourlyRequests = GetCount(limiter.hour[limiter.now], hourAnswered),
                       !.dailyRequests = GetCount(limiter.day, dayAnswered),
                       !.dailyTokens = GetCount(limiter.tokens, tokensAnswered)]]
  /\ UNCHANGED <<storeVars, pureVars, es, race, pubsub, categorized>>

\* canActivate after the counts: return false over a limit; otherwise
\* incrementCounter of hourKey and of dayKey each start with their own
\* getCount, which Redis answers or refuses.
GuardIncrementRead(q, hourAnswered, dayAnswered) ==
  /\ limiter.req[q].pc = "counted"
  /\ limiter' = [limiter EXCEPT !.req[q] =
       IF OverLimit(@.hourlyRequests, @.dailyRequests, @.dailyTokens)
       THEN [IdleRequest EXCEPT !.result = "rejected"]
       ELSE [@ EXCEPT !.pc = "read",
                      !.currentHour = GetCount(limiter.hour[limiter.req[q].hourKey], hourAnswered),
                      !.currentDay = GetCount(limiter.day, dayAnswered),
                      !.pending = CounterKeys]]
  /\ UNCHANGED <<storeVars, pureVars, es, race, pubsub, categorized>>

\* incrementCounter of one key: redisService.set(key, current + 1, ttl), which
\* logs a write Redis refuses and returns; canActivate returns true when the
\* incrementCounter of both keys has ended.
GuardIncrementWrite(q, key, ok) ==
  /\ limiter.req[q].pc = "read"
  /\ key \in limiter.req[q].pending
  /\ LET last == limiter.req[q].pending = {key}
         h == limiter.req[q].hourKey
     IN limiter' = [limiter EXCEPT
          !.hour[h] = IF ok /\ key = "hour" THEN limiter.req[q].currentHour + 1 ELSE @,
          !.day = IF ok /\ key = "day" THEN limiter.req[q].currentDay + 1 ELSE @,
          !.admittedHour[h] = IF last THEN @ + 1 ELSE @,
          !.admittedDay = IF last THEN @ + 1 ELSE @,
          !.req[q] = IF last
                     THEN [IdleRequest EXCEPT
                             !.result = "admitted",
                             !.hourlyRequests = limiter.req[q].hourlyRequests,
                             !.dailyRequests = limiter.req[q].dailyRequests,
                             !.dailyTokens = limiter.req[q].dailyTokens]
                     ELSE [@ EXCEPT !.pending = @ \ {key}]]
  /\ UNCHANGED <<storeVars, pureVars, es, race, pubsub, categorized>>

\* The hour of the clock changes, whatever the requests in the guard are
\* doing: a request that enters from now on builds the hourKey of the new
\* hour, and a request in the guard keeps the key it has built.
NextHour ==
  /\ limiter.now < MaxHour
  /\ limiter' = [limiter EXCEPT !.now = @ + 1]
  /\ UNCHANGED <<storeVars, pureVars, es, race, pubsub, categorized>>

\* No request is in the guard and no counter has a value; tokensKey, which
\* no code of the repository writes, holds nothing or the daily limit.
InitLimiter ==
  /\ StoresEmpty
  /\ es = IdleEs
  /\ limiter \in {[IdleLimiter EXCEPT !.tokens = t] : t \in {0, MaxTokensPerDay}}
  /\ race = IdleRace
  /\ pubsub = IdlePubSub
  /\ categorized = NotCategorized

NextLimiter ==
  \/ \E q \in Requests, hourAnswered, dayAnswered, tokensAnswered \in BOOLEAN :
       GuardGetCounts(q, hourAnswered, dayAnswered, tokensAnswered)
  \/ \E q \in Requests, hourAnswered, dayAnswered \in BOOLEAN :
       GuardIncrementRead(q, hourAnswered, dayAnswered)
  \/ \E q \in Requests, key \in CounterKeys, ok \in BOOLEAN :
       GuardIncrementWrite(q, key, ok)
  \/ NextHour

SpecLimiter == InitLimiter /\ [][NextLimiter]_vars

\* ------------------------------------------ syncRecipe calls racing on one id
\* prisma.recipe.findUnique({ where, include }), called outside any
\* transaction: the recipe row is read by one statement and the included
\* relations by the statements after it, each answered from the state
\* committed when it runs.
FindUniqueRecipe(row) ==
  [IdleSyncCall.recipe EXCEPT !.isPublic = row.isPublic, !.title = row.title]
FindUniqueInclude(recipe, row) == [recipe EXCEPT !.ings = row.ings]

\* RecipesRepository.update: one transaction sets the recipe to another state.
RaceUpdate(state) ==
  /\ race.row # state
  /\ race' = [race EXCEPT !.row = state,
                 !.committed = IF state.isPublic THEN @ \cup {RaceDocument(state)} ELSE @]
  /\ UNCHANGED <<storeVars, pureVars, es, limiter, pubsub, categorized>>

\* syncRecipe, first await, of call c: findUnique reads the recipe row.
RaceSyncRead(c) ==
  /\ race.calls[c].pc \in {"idle", "done"}
  /\ race' = [race EXCEPT !.calls[c] =
                 [pc |-> "row", recipe |-> FindUniqueRecipe(race.row)]]
  /\ UNCHANGED <<storeVars, pureVars, es, limiter, pubsub, categorized>>

\* syncRecipe, first await, of call c: findUnique reads the included
\* relations of the row it read and the call has its recipe.
RaceSyncInclude(c) ==
  /\ race.calls[c].pc = "row"
  /\ race' = [race EXCEPT !.calls[c] =
                 [pc |-> "fetched",
                  recipe |-> FindUniqueInclude(race.calls[c].recipe, race.row)]]
  /\ UNCHANGED <<storeVars, pureVars, es, limiter, pubsub, categorized>>

\* The write of a call that read recipe: deleteRecipe for a non-public
\* recipe, indexDocument('recipes', id, document) for a public one; the whole
\* document replaces the one stored.
RaceWrite(doc, recipe, up) ==
  IF ~up THEN doc ELSE IF recipe.isPublic THEN RaceDocument(recipe) ELSE NoRaceDoc

\* syncRecipe, second await, of call c.
RaceSyncWrite(c, up) ==
  /\ race.calls[c].pc = "fetched"
  /\ race' = [race EXCEPT !.doc = RaceWrite(@, race.calls[c].recipe, up),
                          !.calls[c] = [IdleSyncCall EXCEPT !.pc = "done"]]
  /\ UNCHANGED <<storeVars, pureVars, es, limiter, pubsub, categorized>>

InitRace == StoresEmpty /\ ServicesIdle

NextRace ==
  \/ \E state \in RecipeStates : RaceUpdate(state)
  \/ \E c \in SyncCalls : RaceSyncRead(c)
  \/ \E c \in SyncCalls : RaceSyncInclude(c)
  \/ \E c \in SyncCalls, up \in BOOLEAN : RaceSyncWrite(c, up)

SpecRace == InitRace /\ [][NextRace]_vars

\* ----------------------------------------------------- categorizeIngredient
\* String.prototype.toLowerCase, character by character.
LowerChar(c) ==
  IF c = "P" THEN "p" ELSE IF c = "E" THEN "e" ELSE IF c = "R" THEN "r"
  ELSE IF c = "B" THEN "b" ELSE IF c = "F" THEN "f" ELSE c
LowerName(name) == [i \in DOMAIN name |-> LowerChar(name[i])]

\* String.prototype.includes
Includes(name, word) ==
  \E i \in 1..(Len(name) - Len(word) + 1) : SubSeq(name, i, i + Len(word) - 1) = word

\* The keywords of each category, letter by letter.
Keywords(category) ==
  IF category = "protein" THEN
    {<<"c", "h", "i", "c", "k", "e", "n">>, <<"b", "e", "e", "f">>,
     <<"p", "o", "r", "k">>, <<"f", "i", "s", "h">>,
     <<"s", "a", "l", "m", "o", "n">>, <<"m", "e", "a", "t">>}
  ELSE IF category = "vegetable" THEN
    {<<"o", "n", "i", "o", "n">>, <<"g", "a", "r", "l", "i", "c">>,
     <<"t", "o", "m", "a", "t", "o">>, <<"c", "a", "r", "r", "o", "t">>,
     <<"p", "e", "p", "p", "e", "r">>, <<"l", "e", "t", "t", "u", "c", "e">>}
  ELSE IF category = "fruit" THEN
    {<<"a", "p", "p", "l", "e">>, <<"b", "a", "n", "a", "n", "a">>,
     <<"o", "r", "a", "n", "g", "e">>, <<"b", "e", "r", "r", "y">>,
     <<"l", "e", "m", "o", "n">>, <<"l", "i", "m", "e">>}
  ELSE IF category = "grain" THEN
    {<<"f", "l", "o", "u", "r">>, <<"r", "i", "c", "e">>,
     <<"p", "a", "s", "t", "a">>, <<"b", "r", "e", "a", "d">>,
     <<"o", "a", "t", "s">>, <<"q", "u", "i", "n", "o", "a">>}
  ELSE IF category = "dairy" THEN
    {<<"m", "i", "l", "k">>, <<"c", "h", "e", "e", "s", "e">>,
     <<"b", "u", "t", "t", "e", "r">>, <<"c", "r", "e", "a", "m">>,
     <<"y", "o", "g", "u", "r", "t">>}
  ELSE IF category = "seasoning" THEN
    {<<"s", "a", "l", "t">>, <<"p", "e", "p", "p", "e", "r">>,
     <<"b", "a", "s", "i", "l">>, <<"o", "r", "e", "g", "a", "n", "o">>,
     <<"t", "h", "y", "m", "e">>, <<"s", "p", "i", "c", "e">>}
  ELSE {}

\* name.includes(k1) || name.includes(k2) || ...
IncludesAny(name, category) == \E word \in Keywords(category) : Includes(name, word)

\* categorizeIngredient with the seasoning test moved before the vegetable test.
CategorizeIngredientSeasoningFirst(ingredientName) ==
  LET name == LowerName(ingredientName)
  IN IF IncludesAny(name, "protein") THEN "protein"
     ELSE IF IncludesAny(name, "seasoning") THEN "seasoning"
     ELSE IF IncludesAny(name, "vegetable") THEN "vegetable"
     ELSE IF IncludesAny(name, "fruit") THEN "fruit"
     ELSE IF IncludesAny(name, "grain") THEN "grain"
     ELSE IF IncludesAny(name, "dairy") THEN "dairy"
     ELSE "other"

\* categorizeIngredient: the chain of if statements, in the order written.
CategorizeIngredient(ingredientName) ==
  LET name == LowerName(ingredientName)
  IN IF IncludesAny(name, "protein") THEN "protein"
     ELSE IF IncludesAny(name, "vegetable") THEN "vegetable"
     ELSE IF IncludesAny(name, "fruit") THEN "fruit"
     ELSE IF IncludesAny(name, "grain") THEN "grain"
     ELSE IF IncludesAny(name, "dairy") THEN "dairy"
     ELSE IF IncludesAny(name, "seasoning") THEN "seasoning"
     ELSE "other"

\* syncIngredients computes the category of one of the names.
Categorize(names) ==
  /\ categorized.pc = "idle"
  /\ \E name \in names :
       categorized' = [pc |-> "done", name |-> name,
                       category |-> CategorizeIngredient(name)]
  /\ UNCHANGED <<storeVars, pureVars, es, limiter, race, pubsub>>

\* The pieces of the names: every keyword, two words in capitals, a letter
\* that is in no keyword and a blank; a name is one piece or two.
NamePieces ==
  UNION {Keywords(c) : c \in {"protein", "vegetable", "fruit", "grain", "dairy", "seasoning"}}
    \cup {<<"P", "E", "P", "P", "E", "R">>, <<"B", "e", "e", "f">>, <<"x">>, <<" ">>, <<>>}
CategoryNames == {p \o q : p \in NamePieces, q \in NamePieces}

InitCategorize == StoresEmpty /\ ServicesIdle

NextCategorize == Categorize(CategoryNames)

SpecCategorize == InitCategorize /\ [][NextCategorize]_vars

\* ------------------------------------------------------------ PubSubService
\* subscribe(channel, callback) up to its await: the callback of a channel
\* in the map is added and the call returns; a channel not in the map gets an
\* empty Set and the call waits for subscriber.subscribe.
Subscribe(p, channel, callback) ==
  /\ pubsub.calls[p].pc = "idle"
  /\ pubsub' =
       IF pubsub.subscriptions[channel].present
       THEN [pubsub EXCEPT !.subscriptions[channel].callbacks = @ \cup {callback}]
       ELSE [pubsub EXCEPT
               !.subscriptions[channel] = [present |-> TRUE, callbacks |-> {}],
               !.calls[p] = [pc |-> "subscribing", channel |-> channel,
                             callback |-> callback]]
  /\ UNCHANGED <<storeVars, pureVars, es, limiter, race, categorized>>

\* subscribe after its await: Redis has subscribed the connection and the
\* callback is added to the Set the map holds now (none: the TypeError is
\* caught and logged); a failing Redis subscribe is caught and logged.
SubscribeAnswered(p, ok) ==
  /\ pubsub.calls[p].pc = "subscribing"
  /\ LET channel == pubsub.calls[p].channel
         entry == pubsub.subscriptions[channel]
     IN pubsub' = [pubsub EXCEPT
          !.redis = IF ok THEN @ \cup {channel} ELSE @,
          !.subscriptions[channel] =
             IF ok /\ entry.present
             THEN [entry EXCEPT !.callbacks = @ \cup {pubsub.calls[p].callback}]
             ELSE entry,
          !.calls[p] = IdlePubSubCall]
  /\ UNCHANGED <<storeVars, pureVars, es, limiter, race, categorized>>

\* unsubscribe(channel, callback?) up to its await: nothing for a channel not
\* in the map; with a callback, it is removed and the channel goes when its
\* Set is empty; without one the channel goes.  The map entry is deleted and
\* the call waits for subscriber.unsubscribe.
Unsubscribe(p, channel, callback) ==
  /\ pubsub.calls[p].pc = "idle"
  /\ pubsub.subscriptions[channel].present
  /\ LET left == IF IsSome(callback)
                 THEN pubsub.subscriptions[channel].callbacks \ {Val(callback)}
                 ELSE {}
     IN pubsub' = IF left # {}
          THEN [pubsub EXCEPT !.subscriptions[channel].callbacks = left]
          ELSE [pubsub EXCEPT !.subscriptions[channel] = NoCallbacks,
                              !.calls[p] = [pc |-> "unsubscribing",
                                            channel |-> channel, callback |-> "none"]]
  /\ UNCHANGED <<storeVars, pureVars, es, limiter, race, categorized>>

\* unsubscribe after its await: Redis has unsubscribed the connection, or the
\* failure is caught and logged.
UnsubscribeAnswered(p, ok) ==
  /\ pubsub.calls[p].pc = "unsubscribing"
  /\ pubsub' = [pubsub EXCEPT
                  !.redis = IF ok THEN @ \ {pubsub.calls[p].channel} ELSE @,
                  !.calls[p] = IdlePubSubCall]
  /\ UNCHANGED <<storeVars, pureVars, es, limiter, race, categorized>>

\* A message is published on a channel: Redis sends it to the subscriber if
\* it is subscribed, and handleMessage calls the callbacks of the map.
HandleMessage(channel) ==
  /\ pubsub' = [pubsub EXCEPT !.delivered =
       [channel |-> channel,
        registered |-> pubsub.subscriptions[channel].callbacks,
        to |-> IF channel \in pubsub.redis
               THEN pubsub.subscriptions[channel].callbacks ELSE {}]]
  /\ UNCHANGED <<storeVars, pureVars, es, limiter, race, categorized>>

InitPubSub == StoresEmpty /\ ServicesIdle

NextPubSub ==
  \/ \E p \in PubSubCalls, channel \in Channels, callback \in Callbacks :
       Subscribe(p, channel, callback)
  \/ \E p \in PubSubCalls, ok \in BOOLEAN : SubscribeAnswered(p, ok)
  \/ \E p \in PubSubCalls, channel \in Channels,
        callback \in {None} \cup {Some(f) : f \in Callbacks} :
       Unsubscribe(p, channel, callback)
  \/ \E p \in PubSubCalls, ok \in BOOLEAN : UnsubscribeAnswered(p, ok)
  \/ \E channel \in Channels : HandleMessage(channel)

SpecPubSub == InitPubSub /\ [][NextPubSub]_vars

\* ------------------------------------------------------------ properties
Quiescent == sync.pc \in {"idle", "done"} /\ bulk.pc \in {"idle", "done"}
SearchReturns == search.pc = "queried" /\ search'.pc = "done" /\ search'.outcome = "ok"

\* C1: whenever the RecipesService operations issued so far have returned, the
\* 'recipes' index holds a document for an id iff the database holds a public
\* recipe with that id.
C1_IndexIffPublic ==
  \A r \in RecipeIds : HasDoc(index, r) <=> IsPublicRow(db, r)

\* C2: every step of RecipesService that creates, updates or deletes recipe r
\* starts a call of the sync service for r: syncRecipe on create and update,
\* deleteRecipe on delete.
C2_MutationTriggersSync ==
  [][\A r \in RecipeIds : db'[r] # db[r] =>
        /\ sync' # sync
        /\ sync'.id = r
        /\ sync'.op = IF db'[r].st = "gone" THEN "deleteRecipe" ELSE "syncRecipe"]_vars

\* C3: every record returned by searchRecipes or cookWithWhatIHave is a recipe
\* that is public in the database at the moment of the database fetch, whatever
\* the index held when the engine answered.
C3_ResultsArePublic ==
  [][SearchReturns =>
       \A i \in DOMAIN search'.recipes : IsPublicRow(db', search'.recipes[i])]_vars

\* C3 witness: a search returned although a hit of the engine was a stale
\* document of a recipe that is not public, and the recipe was left out.
C3_Witness ==
  /\ search.pc = "done" /\ search.outcome = "ok"
  /\ \E i \in DOMAIN search.hits :
       /\ HasDoc(index, search.hits[i])
       /\ ~IsPublicRow(db, search.hits[i])
       /\ search.hits[i] \notin Range(search.recipes)

\* The position in the hit list of the k-th id that resolves to a public row.
KthResolving(d, hits, k) ==
  CHOOSE i \in DOMAIN hits :
    /\ IsPublicRow(d, hits[i])
    /\ Cardinality({j \in 1..i : IsPublicRow(d, hits[j])}) = k

\* C4: the returned recipes are the hit list of the engine restricted to the
\* ids that resolve to a public row: as many as resolve, the k-th returned is
\* the k-th resolving hit, in the order of the engine.
C4_EngineOrderRestricted ==
  [][SearchReturns =>
       /\ Len(search'.recipes) =
            Cardinality({i \in DOMAIN search.hits : IsPublicRow(db', search.hits[i])})
       /\ \A k \in DOMAIN search'.recipes :
            search'.recipes[k] = search.hits[KthResolving(db', search.hits, k)]]_vars

\* C4 witness: the engine ranked "b" before "a", both resolved, and the result
\* is in that order, not in the order of the database.
C4_Witness ==
  /\ search.pc = "done" /\ search.outcome = "ok"
  /\ search.hits = <<"b", "a">>
  /\ search.recipes = <<"b", "a">>

\* C5: the total of the result is the total the engine reported (the number,
\* or the value of the object), whatever the number of recipes kept.
C5_TotalIsEngineTotal ==
  [][SearchReturns => search'.total = search.hitsTotal.value]_vars

\* C5 witness: an id was dropped and the total exceeds the recipes returned.
C5_Witness ==
  /\ search.pc = "done" /\ search.outcome = "ok"
  /\ Len(search.recipes) < Len(search.hits)
  /\ search.total > Len(search.recipes)

\* C6: a search call that completes while the database is available gives its
\* caller a result, never an error, also when the engine call failed.
C6_EngineFailureFallsBack ==
  [][(search' # search /\ search'.pc = "done" /\ dbUp) =>
        search'.outcome = "ok"]_vars

\* C7: no call of syncRecipe, deleteRecipe or bulkSyncRecipes raises an error
\* to its caller.
C7_SyncNeverThrows == sync.outcome # "threw" /\ bulk.outcome # "threw"

\* C8: when syncRecipe reads a recipe as not public while the index holds its
\* document and then returns, the index holds no document with that id (not
\* even one with isPublic = false) and no query can have a hit for it.
C8_UnpublishRemovesDocument ==
  [][(/\ sync.pc = "fetched" /\ ~sync.snap.isPublic
      /\ HasDoc(index, sync.id)
      /\ sync'.pc = "done" /\ sync'.outcome = "ok") =>
        /\ ~HasDoc(index', sync.id)
        /\ sync.id \notin Matchable(index')]_vars

\* C8 witness: syncRecipe returned after the engine deleted the document of a
\* recipe that is now private.
C8_Witness ==
  /\ sync.pc = "done" /\ sync.op = "syncRecipe"
  /\ sync.engine = "deleted" /\ sync.outcome = "ok"
  /\ IsLive(db, sync.id) /\ ~db[sync.id].isPublic
  /\ ~HasDoc(index, sync.id)

\* C9: deleteRecipe for an id without a document, answered by the engine,
\* gets a 404, returns normally and leaves the index as it was; hence a
\* second deleteRecipe changes nothing.
C9_DeleteAbsentIsNoOp ==
  [][(/\ sync' # sync /\ sync'.pc = "done"
      /\ sync'.op = "deleteRecipe" \/ (sync.pc = "fetched" /\ ~sync.snap.isPublic)
      /\ ~HasDoc(index, sync'.id)
      /\ sync'.engine # "error") =>
        /\ sync'.engine = "404"
        /\ sync'.outcome = "ok"
        /\ index' = index]_vars

\* C9 witness: deleteRecipe returned normally after a 404 of the engine.
C9_Witness ==
  /\ sync.pc = "done" /\ sync.op = "deleteRecipe"
  /\ sync.engine = "404" /\ sync.outcome = "ok"
  /\ ~HasDoc(index, sync.id)

\* C10: once no sync is in flight and every mutated recipe has been followed by
\* a successful incremental sync, the index holds a document for an id iff the
\* recipe is public, and the document is the projection of the current row.
C10_ConvergesAfterSyncs ==
  (Quiescent /\ unsynced = {}) =>
     \A r \in RecipeIds :
       /\ HasDoc(index, r) <=> IsPublicRow(db, r)
       /\ HasDoc(index, r) => index[r] = Project(db[r])

\* C11: when a bulk resync whose writes the engine all accepted has completed,
\* with no mutation beside it, the 'recipes' index holds a document for an id
\* iff the database holds a public recipe with that id, whatever the index
\* held before.
C11_BulkRepairsIndex ==
  (bulk.pc = "done" /\ bulk.outcome = "ok" /\ bulkHist.cur = "accepted") =>
     \A r \in RecipeIds : HasDoc(index, r) <=> IsPublicRow(db, r)

\* C12: after a bulk resync that completed with every write accepted, no step
\* of the next bulk resync (the database unchanged in between) changes a
\* document of the 'recipes' index or of the 'ingredients' index.
C12_BulkIdempotent ==
  [][(bulkHist.prev /\ bulk' # bulk) => (index' = index /\ facets' = facets)]_vars

\* C12 witness: a second resync in a row completed, both with every write
\* accepted, and the indices hold documents.
C12_Witness ==
  /\ bulk.pc = "done" /\ bulk.outcome = "ok"
  /\ bulkHist.prev /\ bulkHist.cur = "accepted"
  /\ \E r \in RecipeIds : HasDoc(index, r)
  /\ \E k \in FacetIds : facets[k].present

\* C13: when the engine rejects some documents of the bulk write, bulkIndex
\* returns: the batch goes on to the ingredient sync, the rejected ids are in
\* the log, every other document of the batch is indexed as projected, and the
\* call then completes normally.
C13_PartialFailureContinues ==
  [][/\ (bulk.pc = "fetched" /\ bulk'.engine = "partial") =>
          /\ bulk'.pc = "ingredients"
          /\ bulk'.logged # {}
          /\ bulk'.logged \subseteq BulkDocuments(bulk.snap)
          /\ \A r \in RecipeIds :
                index'[r] = IF r \in BulkDocuments(bulk.snap) \ bulk'.logged
                            THEN Project(bulk.snap[r]) ELSE index[r]
     /\ (bulk.pc \in {"ingredients", "counted"} /\ bulk.engine = "partial"
           /\ bulk' # bulk) =>
          /\ bulk'.pc \in {"ingredients", "counted", "done"}
          /\ bulk'.pc = "done" => bulk'.outcome = "ok"
          /\ bulk'.logged = bulk.logged
          /\ facets' \in {facets, PutFacet(facets, Head(bulk.names), bulk.count)}]_vars

\* C13 witness: a bulk resync completed normally after the engine rejected one
\* document and indexed the other.
C13_Witness ==
  /\ bulk.pc = "done" /\ bulk.engine = "partial" /\ bulk.outcome = "ok"
  /\ bulkHist.cur = "failed"
  /\ \E r \in RecipeIds : IsPublicRow(db, r) /\ index[r] = Project(db[r])
  /\ \E r \in RecipeIds : IsPublicRow(db, r) /\ index[r] # Project(db[r])

QueryBuilt == built.pc \in {"built", "answered"}
\* Document doc has an ingredient row that matches the requested name, by the
\* analyzed field or by the keyword field.
NameHit(name, doc) ==
  \E n \in doc.names : AnalyzedMatch(name, n) \/ KeywordMatch(name, n)
\* Position of document i in the hit list (0 when it is not a hit).
HitPos(i) ==
  IF i \in Range(built.hits) THEN CHOOSE k \in DOMAIN built.hits : built.hits[k] = i
  ELSE 0

\* C14: every query built by buildSearchQuery and by cookWithWhatIHave has the
\* must clause isPublic = true, and no document that is not public is a hit.
C14_QueriesRequirePublic ==
  QueryBuilt =>
    /\ \E i \in DOMAIN built.query.must : built.query.must[i] = TermIsPublic
    /\ \A h \in Range(built.hits) : built.docs[h].isPublic

\* C14 witness: a request with free text, ingredients and filters was answered
\* over a private document that its text and ingredients match: no hit.
C14_Witness ==
  /\ built.pc = "answered" /\ built.op = "searchRecipes"
  /\ built.req.query = Some("pasta") /\ built.req.ingredients = Some(<<"egg">>)
  /\ IsSome(built.req.cuisines) /\ IsSome(built.req.authorId)
  /\ ~built.docs[1].isPublic /\ built.docs[1].title = "pasta"
  /\ "egg" \in built.docs[1].names
  /\ built.hits = <<>>

\* C15: for a request with a non-empty ingredient list the must clauses hold
\* one nested ingredient clause per requested name, and every hit has, for
\* every requested name, an ingredient row matching it.
C15_IngredientsAreAnded ==
  (QueryBuilt /\ built.op = "searchRecipes" /\ NonEmptyList(built.req.ingredients)) =>
    LET ings == Val(built.req.ingredients)
        must == built.query.must
    IN /\ Cardinality({j \in DOMAIN must : must[j].kind = "nested"}) = Len(ings)
       /\ \A i \in DOMAIN ings : \E j \in DOMAIN must : must[j] = NestedIngredientMatch(ings[i])
       /\ \A h \in Range(built.hits) : \A i \in DOMAIN ings :
             \E n \in built.docs[h].names : AnalyzedMatch(ings[i], n)

\* C15 witness: egg and flour were asked for and a document with the rows Egg
\* and flour is the hit.
C15_Witness ==
  /\ built.pc = "answered" /\ built.op = "searchRecipes"
  /\ built.req.ingredients = Some(<<"egg", "flour">>)
  /\ built.docs[1].names = {"Egg", "flour"}
  /\ built.hits = <<1>>

\* The requested names document i matches, and the public documents matching
\* at least one.
NamesHit(i) ==
  {built.names[k] : k \in {x \in DOMAIN built.names : NameHit(built.names[x], built.docs[i])}}
CookMatching ==
  {i \in DOMAIN built.docs : built.docs[i].isPublic /\ NamesHit(i) # {}}
\* All else equal: every clause that matches document b scores the same on
\* document a.
EqualClauseScores(a, b) ==
  \A k \in DOMAIN built.names :
     NameHit(built.names[k], built.docs[b]) =>
       ClauseScore(NestedIngredientShould(built.names[k]), built.docs[a], built.docs) =
         ClauseScore(NestedIngredientShould(built.names[k]), built.docs[b], built.docs)

\* C16: the cookWithWhatIHave query has one should clause per name (nested,
\* score_mode sum) and minimum_should_match 1; its hits are the public
\* documents matching at least one name, up to the limit; the score is the
\* sum over the names; and of two matching documents whose clauses score
\* alike, the one matching more names comes first.
C16_CookMatchesAnyRanksMore ==
  (QueryBuilt /\ built.op = "cookWithWhatIHave") =>
    /\ built.query.should =
         Some([k \in DOMAIN built.names |-> NestedIngredientShould(built.names[k])])
    /\ built.query.minimum_should_match = Some(1)
    /\ built.pc = "answered" =>
         /\ Range(built.hits) \subseteq CookMatching
         /\ Len(built.hits) = IF built.size < Cardinality(CookMatching)
                               THEN built.size ELSE Cardinality(CookMatching)
         /\ \A i \in CookMatching :
               EngineScore(built.query, built.docs[i], built.docs) =
                 ClauseScore(TermIsPublic, built.docs[i], built.docs) +
                 SumSeq([k \in DOMAIN built.names |->
                   ClauseScore(NestedIngredientShould(built.names[k]), built.docs[i],
                               built.docs)])
         /\ \A a, b \in CookMatching :
               (/\ EqualClauseScores(a, b)
                /\ Cardinality(NamesHit(a)) > Cardinality(NamesHit(b))) =>
                  /\ HitPos(a) # 0
                  /\ HitPos(b) # 0 => HitPos(a) < HitPos(b)

\* C16 witness: egg and flour were given; the first document has egg only, the
\* second both, the egg clause scores the same on both, and the second is the
\* first hit.
C16_Witness ==
  /\ built.pc = "answered" /\ built.op = "cookWithWhatIHave"
  /\ built.names = <<"egg", "flour">>
  /\ built.docs[1].names = {"egg"} /\ built.docs[2].names = {"egg", "flour"}
  /\ built.docs[1].avgRating = Some(5) /\ built.docs[2].avgRating = None
  /\ EqualClauseScores(2, 1)
  /\ built.hits = <<2, 1>>

\* Document a comes strictly before b by score, then average rating (none
\* last), then rating count, then creation time, all descending.
Preferred(a, b) ==
  LET sa == EngineScore(built.query, a, built.docs)
      sb == EngineScore(built.query, b, built.docs)
      ratingTies == a.avgRating = b.avgRating
  IN \/ sa > sb
     \/ /\ sa = sb
        /\ \/ IsSome(a.avgRating) /\ ~IsSome(b.avgRating)
           \/ IsSome(a.avgRating) /\ IsSome(b.avgRating) /\ Val(a.avgRating) > Val(b.avgRating)
           \/ ratingTies /\ a.ratingsCount > b.ratingsCount
           \/ ratingTies /\ a.ratingsCount = b.ratingsCount /\ a.createdAt > b.createdAt

\* C17: both queries sort by _score, avgRating (missing last), ratingsCount
\* and createdAt, all descending, and no document stands behind one it is
\* preferred to by these keys, in the hit list or cut off by the page.
C17_SortKeys ==
  QueryBuilt =>
    /\ built.query.sort =
         <<[field |-> "_score", order |-> "desc", missing |-> None],
           [field |-> "avgRating", order |-> "desc", missing |-> Some("_last")],
           [field |-> "ratingsCount", order |-> "desc", missing |-> None],
           [field |-> "createdAt", order |-> "desc", missing |-> None]>>
    /\ \A i, j \in {x \in DOMAIN built.docs : EngineMatches(built.query, built.docs[x])} :
         Preferred(built.docs[i], built.docs[j]) =>
           /\ HitPos(i) # 0
           /\ HitPos(j) # 0 => HitPos(i) < HitPos(j)

\* C17 witness: two hits of searchRecipes for 'pasta' with different scores;
\* the document titled pasta is first although the one titled paste is rated,
\* newer and first in the index.
C17_Witness ==
  /\ built.pc = "answered" /\ built.op = "searchRecipes"
  /\ built.req.query = Some("pasta")
  /\ built.docs[1].title = "paste" /\ built.docs[2].title = "pasta"
  /\ EngineScore(built.query, built.docs[2], built.docs) >
       EngineScore(built.query, built.docs[1], built.docs)
  /\ built.docs[1].avgRating = Some(4) /\ built.docs[2].avgRating = None
  /\ built.docs[1].createdAt > built.docs[2].createdAt
  /\ built.hits = <<2, 1>>
\* A request with no free text and only cuisine and difficulty filters.
CategoricalOnly(req) ==
  /\ ~TruthyString(req.query)
  /\ ~NonEmptyList(req.ingredients)
  /\ ~IsSome(req.maxCookingTime) /\ ~IsSome(req.minServings)
  /\ ~IsSome(req.maxServings) /\ ~IsSome(req.authorId)

\* C18 as stated: with the index in sync, for a request that has no free
\* text and only cuisine and difficulty filters, the fallback and the
\* primary searchRecipes return the same set of recipe ids.
C18_FallbackParity ==
  (fallback.pc = "both" /\ CategoricalOnly(fallback.req))
    => Range(fallback.recipes) = Range(fallback.primary)

\* C18 amended: with the index in sync, for a request that has no free text
\* and only cuisine and difficulty filters, the two paths return the same set
\* of recipe ids whenever the page starts at 0 and every matching recipe fits
\* in the page the fallback asks for.
C18_FallbackParityWithinPage ==
  (/\ fallback.pc = "both" /\ CategoricalOnly(fallback.req)
   /\ fallback.skip = 0 /\ fallback.total <= fallback.take)
    => Range(fallback.recipes) = Range(fallback.primary)

\* Both paths answered a cuisine-filtered request with the same two recipes,
\* in different orders.
C18_Witness ==
  /\ fallback.pc = "both" /\ CategoricalOnly(fallback.req)
  /\ NonEmptyList(fallback.req.cuisines)
  /\ fallback.skip = 0 /\ fallback.total <= fallback.take
  /\ Len(fallback.recipes) = 2
  /\ Range(fallback.recipes) = Range(fallback.primary)
  /\ fallback.recipes # fallback.primary

\* C19: for every request the fallback pages as the primary path does: the
\* same skip, and the same page size, which for a take in 1..100 is the take
\* given and 20 when none is given.
C19_SamePagination ==
  fallback.pc = "both" =>
    /\ fallback.skip = fallback.from
    /\ fallback.take = fallback.size
    /\ fallback.take = IF IsSome(fallback.req.take) THEN Val(fallback.req.take) ELSE 20

\* C20: for a request with a non-empty ingredients list, every recipe the
\* fallback returns has, for each requested name, an ingredient row whose
\* name contains it, letter case ignored.
C20_FallbackHonoursIngredients ==
  (fallback.pc \in {"fallback", "queried", "both"}
     /\ NonEmptyList(fallback.req.ingredients)) =>
    \A r \in Range(fallback.recipes) :
      \A k \in DOMAIN Val(fallback.req.ingredients) :
        \E n \in Range(IngredientsOf(r, db[r].ver)) :
          ContainsInsensitive(n, Val(fallback.req.ingredients)[k])
\* C21: every result of the fallback service, searchRecipes and
\* cookWithWhatIHave, lists its recipes in creation time descending order and
\* holds only public recipes.
C21_FallbackNewestFirstPublic ==
  fallback.pc \in {"fallback", "queried", "both", "cook"} =>
    /\ \A i, j \in DOMAIN fallback.recipes :
         i < j => CreatedAt(db, fallback.recipes[i]) > CreatedAt(db, fallback.recipes[j])
    /\ \A r \in Range(fallback.recipes) : IsPublicRow(db, r)
\* C22: onModuleInit never raises: when the ping or the creation of an index
\* fails, the error is logged and nothing is thrown.
C22_OnModuleInitNeverRaises ==
  es.call = "init" => (~es.threw /\ (es.pc = "done" /\ ~es.ensured => es.logged))

\* onModuleInit returned after a failure it logged, one index still missing.
C22_Witness ==
  /\ es.call = "init" /\ es.pc = "done" /\ es.logged /\ ~es.threw
  /\ \E n \in DOMAIN es.indices : es.indices[n] = "absent"

\* C23: after a normal return of createIndicesIfNotExists both indices exist;
\* an index that existed is neither created again nor altered nor deleted;
\* and once it has returned normally a further run changes nothing.
C23_EnsureIndicesIdempotent ==
  [][/\ (es'.pc = "done" /\ ~es'.logged /\ ~es'.threw)
         => \A n \in DOMAIN es'.indices : es'.indices[n] # "absent"
     /\ \A n \in DOMAIN es.indices :
          es.indices[n] # "absent" =>
            (es'.indices[n] = es.indices[n] /\ (n \in es'.created => n \in es.created))
     /\ es.ensured => (es'.indices = es.indices /\ es'.created \subseteq es.created)]_vars

\* A run created the missing 'ingredients' index beside a 'recipes' index that
\* was not made by createIndex, which is left as it was.
C23_Witness ==
  /\ es.call = "ensure" /\ es.pc = "done" /\ ~es.threw /\ es.ensured
  /\ es.created = {"ingredients"}
  /\ es.indices["recipes"] = "foreign" /\ es.indices["ingredients"] = "ours"
\* A step of ElasticsearchSyncService: of syncRecipe, deleteRecipe,
\* syncIngredients (inside syncRecipe and bulkSyncRecipes) or bulkSyncRecipes.
SyncServiceStep == sync' # sync \/ bulk' # bulk

\* C24: no step of a sync operation, succeeding or failing, creates, updates
\* or deletes a row of the database.
C24_SyncLeavesDatabase ==
  [][SyncServiceStep => db' = db]_vars

\* A syncRecipe call and a bulkSyncRecipes call have ended, one of them with a
\* thrown error, and rows are in the database.
C24_Witness ==
  /\ sync.pc = "done" /\ sync.op = "syncRecipe" /\ bulk.pc = "done"
  /\ "threw" \in {sync.outcome, bulk.outcome}
  /\ \A r \in RecipeIds : db[r].st = "live"

\* C26: when syncRecipe is called for an id whose row has been deleted while
\* the index holds a document with that id, the index holds no document with
\* that id once the call has returned.
C26_SyncOfDeletedRemovesDocument ==
  [][\A r \in RecipeIds :
       (dbUp /\ db[r].st = "gone" /\ HasDoc(index, r) /\ SyncRecipeStart(r))
         => ~HasDoc(index', r)]_vars
\* C25: under every interleaving of the requests of one user the guard admits
\* at most maxRequestsPerHour of the requests that enter in one hour and at
\* most maxRequestsPerDay in one day.
C25_AdmitsAtMostLimit ==
  /\ \A h \in Hours : limiter.admittedHour[h] <= MaxRequestsPerHour
  /\ limiter.admittedDay <= MaxRequestsPerDay
\* The facet the 'ingredients' index holds for a name after the step.
FacetOf(ingredientName) == facets'[ToLowerCase(ReplaceSpaces(ingredientName))]

\* C28: when syncRecipe of a public recipe returns normally, the
\* 'ingredients' index holds, for every distinct lower-cased name of the
\* recipe, a facet whose usageCount is the number of ingredient rows with that
\* name, letter case ignored, as counted during the sync: the names written
\* before hold the documents built for them, the name in hand holds the count
\* taken for it, and no name is left without a facet.
C28_SyncWritesFacets ==
  [][(sync.op = "syncRecipe" /\ sync.pc \in {"ingredients", "counted"}
        /\ sync'.pc = "done" /\ sync'.outcome = "ok")
       => /\ \A i \in DOMAIN sync.documents :
               /\ FacetOf(sync.documents[i].name).present
               /\ FacetOf(sync.documents[i].name).usageCount
                    = sync.documents[i].usageCount
          /\ \A n \in Range(sync.names) : FacetOf(n).present
          /\ sync.pc = "counted" => FacetOf(Head(sync.names)).usageCount = sync.count]_vars
\* C30: after any sequence of subscribe and unsubscribe calls, failing Redis
\* calls included, a channel is in the subscriptions map exactly when the
\* Redis subscriber is subscribed to it, and a message reaches every callback
\* registered for its channel.
C30_MapMatchesRedis ==
  (\A p \in PubSubCalls : pubsub.calls[p].pc = "idle") =>
    /\ \A c \in Channels : pubsub.subscriptions[c].present <=> c \in pubsub.redis
    /\ pubsub.delivered.registered \subseteq pubsub.delivered.to
\* The fixed order of the categories.
Taxonomy == <<"protein", "vegetable", "fruit", "grain", "dairy", "seasoning">>
\* The places in the taxonomy of the categories with a keyword in the name.
CategoriesIn(name) == {i \in DOMAIN Taxonomy : IncludesAny(LowerName(name), Taxonomy[i])}

\* C29: categorizeIngredient returns the first category, in the order protein,
\* vegetable, fruit, grain, dairy, seasoning, one of whose keywords is
\* contained in the lower-cased name, and 'other' when none is; a name
\* containing 'pepper' is 'vegetable' or earlier, never 'seasoning'.
C29_FirstCategoryWins ==
  categorized.pc = "done" =>
    LET hit == CategoriesIn(categorized.name)
    IN /\ hit = {} => categorized.category = "other"
       /\ hit # {} =>
            \E i \in hit : /\ categorized.category = Taxonomy[i]
                           /\ \A j \in hit : i <= j
       /\ Includes(LowerName(categorized.name), <<"p", "e", "p", "p", "e", "r">>)
            => categorized.category \in {"protein", "vegetable"}

\* A name in capitals holding 'pepper' and 'salt', keywords of vegetable and
\* of seasoning, was given the category vegetable.
C29_Witness ==
  /\ categorized.pc = "done"
  /\ categorized.name = <<"P", "E", "P", "P", "E", "R", "s", "a", "l", "t">>
  /\ categorized.category = "vegetable"
\* C27: under every interleaving of syncRecipe calls for one id with updates
\* of the recipe, the document in the index is always the whole projection of
\* one committed public state of the recipe, and it changes only by the write
\* of a call, to the document of that write: the last write applied wins.
C27_WholeDocumentLastWriteWins ==
  [][/\ race'.doc.present => race'.doc \in race'.committed
     /\ race'.doc # race.doc =>
          \E c \in SyncCalls :
            /\ race.calls[c].pc = "fetched" /\ race'.calls[c].pc = "done"
            /\ race'.doc = RaceWrite(race.doc, race.calls[c].recipe, TRUE)]_vars

====
